---- MODULE Spec2Model ----
(***************************************************************************)
(* MakeCatalog: the catalog loader / block builder (core/json_loader.py,   *)
(* core/models.py) and the driver (cli.py) as a state machine.             *)
(*                                                                         *)
(* Text is modelled as a sequence of one-character strings, so that        *)
(* strip(), replace(), lower(), the _ID_SAFE substitution and the          *)
(* "-".join of _new_block_id are computed character by character.          *)
(* A JSON object is a function from its keys to its values; a key that is  *)
(* absent in the document is absent from the DOMAIN.                       *)
(***************************************************************************)
EXTENDS Integers, Sequences, FiniteSets, TLC

VARIABLES
    data,       \* the parsed JSON document handed to Catalog.from_dict
    pc,         \* position of main()/load_catalog()
    catalog,    \* Catalog.from_dict(data)
    gen_models, \* load_catalog's local flag
    blocks,     \* load_catalog's local list `blocks`
    order,      \* load_catalog's local counter `order`
    si,         \* index of the Section the `for sec` loop is at (in main: `for section`)
    ri,         \* index of the Series the `for ser` loop is at (in main: `for series`)
    ii,         \* index of the Table / Media item the inner loop is at
    sec_block_id, \* load_catalog's local `sec_block_id`
    ser_block_id, \* load_catalog's local `ser_block_id`
    mb,         \* the ModelBundle returned by load_catalog (main's `model`)
    args,       \* the parsed command line (main's `args`); it does not reach
                \* load_catalog and is drawn where main first reads it
    frags,      \* main's list `frags` (fragment kinds, in emission order)
    entries,    \* the `entries` of each generate_toc call so far, in call order
    contexts,   \* the contexts the stages after the TOC have handed to their
                \* templates, in call order
    html,       \* main's `html`: the assembled document
    page        \* the browser page of html_to_pdf_chromium

vars == <<data, pc, catalog, gen_models, blocks, order, si, ri, ii,
          sec_block_id, ser_block_id, mb, args, frags, entries, contexts, html, page>>

(***************************************************************************)
(* Bounds of the model.                                                    *)
(***************************************************************************)
MaxSections == 2   \* sections per catalog
MaxSeries == 2     \* series per section
MaxRepeats == 1    \* random id suffixes that repeat an earlier draw

(***************************************************************************)
(* Python values.                                                          *)
(***************************************************************************)
\* None where a text, a list or an id may stand (no character sequence
\* contains the element "None": characters are one-character strings).
None == <<"None">>
\* None where an object (a dataclass instance, a number) may stand.
NoneObj == [none |-> TRUE]

\* no browser page is open
NoPage == [open |-> FALSE]

\* dict.get(key, default)
Get(d, k, default) == IF k \in DOMAIN d THEN d[k] ELSE default
\* `v or default` for a text (the empty text and None are falsy)
Or(v, default) == IF v = <<>> \/ v = None THEN default ELSE v
\* `v or []` for a list
OrList(v) == IF Len(v) = 0 THEN <<>> ELSE v
\* the empty dict / the `d or {}` of the from_dict methods
EmptyDict == <<>>

Whitespace == {" ", "\t", "\n", "\r"}

RECURSIVE LStrip(_)
LStrip(s) ==
    IF s # <<>> /\ Head(s) \in Whitespace THEN LStrip(Tail(s)) ELSE s

RECURSIVE RStrip(_)
RStrip(s) ==
    IF s # <<>> /\ s[Len(s)] \in Whitespace
    THEN RStrip(SubSeq(s, 1, Len(s) - 1)) ELSE s

\* str.strip()
Strip(s) == RStrip(LStrip(s))

UpperCase == <<"A","B","C","D","E","F","G","H","I","J","K","L","M",
               "N","O","P","Q","R","S","T","U","V","W","X","Y","Z">>
LowerCase == <<"a","b","c","d","e","f","g","h","i","j","k","l","m",
               "n","o","p","q","r","s","t","u","v","w","x","y","z">>
Digits == <<"0","1","2","3","4","5","6","7","8","9">>

Range(f) == {f[i] : i \in DOMAIN f}

LowerChar(c) ==
    IF c \in Range(UpperCase)
    THEN LowerCase[CHOOSE i \in DOMAIN UpperCase : UpperCase[i] = c]
    ELSE c

\* str.lower()
Lower(s) == [i \in 1..Len(s) |-> LowerChar(s[i])]

\* str.replace(" ", "-")
ReplaceSpaces(s) == [i \in 1..Len(s) |-> IF s[i] = " " THEN "-" ELSE s[i]]

\* the characters _ID_SAFE = [^a-zA-Z0-9_-]+ does not match
IdSafeChars == Range(UpperCase) \cup Range(LowerCase) \cup Range(Digits) \cup {"_", "-"}

RECURSIVE DropUnsafe(_)
DropUnsafe(s) ==
    IF s # <<>> /\ Head(s) \notin IdSafeChars THEN DropUnsafe(Tail(s)) ELSE s

\* _ID_SAFE.sub("-", s): every maximal run of unsafe characters becomes one "-"
RECURSIVE IdSafeSub(_)
IdSafeSub(s) ==
    IF s = <<>> THEN <<>>
    ELSE IF Head(s) \in IdSafeChars THEN <<Head(s)>> \o IdSafeSub(Tail(s))
    ELSE <<"-">> \o IdSafeSub(DropUnsafe(Tail(s)))

\* s[:n]
Truncate(s, n) == IF Len(s) <= n THEN s ELSE SubSeq(s, 1, n)

SlugMaxLen == 64
HexSuffixLen == 6

HexDigits == <<"0","1","2","3","4","5","6","7","8","9","a","b","c","d","e","f">>

RECURSIVE Pow16(_)
Pow16(k) == IF k = 0 THEN 1 ELSE 16 * Pow16(k - 1)

\* the text of uuid4().hex[:n] whose value is the number v
Hex(v, n) == [i \in 1..n |-> HexDigits[((v \div Pow16(n - i)) % 16) + 1]]

\* _slug(s); the uuid fallback for an empty text draws the number u
_slug(s, u) ==
    LET t == IdSafeSub(ReplaceSpaces(Strip(Or(s, <<>>))))
    IN  Truncate(IF t = <<>> THEN Hex(u, 8) ELSE t, SlugMaxLen)

RECURSIVE JoinDash(_)
JoinDash(parts) ==
    IF parts = <<>> THEN <<>>
    ELSE IF Len(parts) = 1 THEN parts[1]
    ELSE parts[1] \o <<"-">> \o JoinDash(Tail(parts))

RECURSIVE NonEmptyParts(_)
NonEmptyParts(parts) ==
    IF parts = <<>> THEN <<>>
    ELSE IF Head(parts) # <<>> /\ Head(parts) # None
         THEN <<Head(parts)>> \o NonEmptyParts(Tail(parts))
         ELSE NonEmptyParts(Tail(parts))

\* the slug part of _new_block_id(prefix, *parts)
IdSlug(prefix, parts) == _slug(JoinDash(<<prefix>> \o NonEmptyParts(parts)), 0)

\* _new_block_id(prefix, *parts), the uuid4 suffix drawing the number u
_new_block_id(prefix, parts, u) ==
    IdSlug(prefix, parts) \o <<"-">> \o Hex(u, HexSuffixLen)

(***************************************************************************)
(* Text literals of the source.  A character outside ASCII is written as   *)
(* the name of its code point.                                             *)
(***************************************************************************)
TxtRazdel == <<"U+0420","U+0430","U+0437","U+0434","U+0435","U+043B">>
TxtSeriya == <<"U+0421","U+0435","U+0440","U+0438","U+044F">>
TxtSoderzhanie == <<"U+0421","U+043E","U+0434","U+0435","U+0440","U+0436","U+0430","U+043D","U+0438","U+0435">>
TxtVvedenie == <<"U+0412","U+0432","U+0435","U+0434","U+0435","U+043D","U+0438","U+0435">>
TxtOpisanieSerii == <<"U+041E","U+043F","U+0438","U+0441","U+0430","U+043D","U+0438","U+0435"," ","U+0441","U+0435","U+0440","U+0438","U+0438">>
TxtTablitsa == <<"U+0422","U+0430","U+0431","U+043B","U+0438","U+0446","U+0430">>
TxtKontakty == <<"U+041A","U+043E","U+043D","U+0442","U+0430","U+043A","U+0442","U+044B">>
TxtAero == <<"U+0410","U+044D","U+0440","U+043E","U+0434","U+0438","U+043D","U+0430","U+043C","U+0438","U+0447","U+0435","U+0441","U+043A","U+0430","U+044F"," ","U+0445","U+0430","U+0440","U+0430","U+043A","U+0442","U+0435","U+0440","U+0438","U+0441","U+0442","U+0438","U+043A","U+0430">>
TxtIllyustratsiya == <<"U+0418","U+043B","U+043B","U+044E","U+0441","U+0442","U+0440","U+0430","U+0446","U+0438","U+044F">>
TxtKonstruktsiya == <<"*","*","U+041A","U+043E","U+043D","U+0441","U+0442","U+0440","U+0443","U+043A","U+0446","U+0438","U+044F","*","*","\n">>
TxtDa == <<"U+0434","U+0430">>
TxtTenge == <<"U+20B8">>
TxtTheme == <<"#","E","5","3","9","3","5">>
TxtYes == <<"y","e","s">>
TxtNo == <<"n","o">>
TxtTrue == <<"t","r","u","e">>
TxtOne == <<"1">>
TxtPhoto == <<"p","h","o","t","o">>
TxtDrawing == <<"d","r","a","w","i","n","g">>
TxtCurve == <<"c","u","r","v","e">>
TxtVideo == <<"v","i","d","e","o">>
TxtDoc == <<"d","o","c">>
TxtCustom == <<"c","u","s","t","o","m">>
TxtTable == <<"t","a","b","l","e">>
TxtTechnical == <<"t","e","c","h","n","i","c","a","l">>
TxtMediaTypeDot == <<"M","e","d","i","a","T","y","p","e",".">>

(***************************************************************************)
(* core/models.py: the typed catalog.                                      *)
(***************************************************************************)
\* a JSON scalar: a number or a text
Num(n) == [t |-> "num", v |-> n]
Str(s) == [t |-> "str", v |-> s]

\* float(v) succeeds: a number, or a text that spells one
IsNumericText(s) == Strip(s) # <<>> /\ \A i \in 1..Len(Strip(s)) : Strip(s)[i] \in Range(Digits)
FloatOk(v) == v.t = "num" \/ (v.t = "str" /\ IsNumericText(v.v))

RECURSIVE DecimalValue(_)
DecimalValue(s) ==
    IF s = <<>> THEN 0
    ELSE 10 * DecimalValue(SubSeq(s, 1, Len(s) - 1))
         + ((CHOOSE i \in DOMAIN Digits : Digits[i] = s[Len(s)]) - 1)

\* float(v)
Float(v) == IF v.t = "num" THEN v.v ELSE DecimalValue(Strip(v.v))

Company_from_dict(d) ==
    [name     |-> Or(Get(d, "name", <<>>), <<>>),
     address  |-> Or(Get(d, "address", <<>>), <<>>),
     contacts |-> Or(Get(d, "contacts", <<>>), <<>>)]

\* Settings.from_dict: only the fields of the dataclass are kept
Settings_from_dict(d) ==
        [year        |-> Or(Get(d, "year", <<>>), <<>>),
         title       |-> Or(Get(d, "title", <<>>), <<>>),
         theme_color |-> Or(Get(d, "theme_color", TxtTheme), TxtTheme),
         currency    |-> Or(Get(d, "currency", TxtTenge), TxtTenge),
         cover_bg    |-> Or(Get(d, "cover_bg", <<>>), <<>>),
         cover_logo  |-> Or(Get(d, "cover_logo", <<>>), <<>>),
         assets_base |-> Or(Get(d, "assets_base", <<>>), <<>>),
         use_pagedjs |-> Or(Get(d, "use_pagedjs", TxtYes), TxtYes),
         company     |-> Company_from_dict(Get(d, "company", EmptyDict))]

\* Settings.get(key, default): getattr(self, key, None), the default when None
Settings_get(settings, key, default) ==
    IF key \in DOMAIN settings THEN settings[key] ELSE default

TableColumn_from_dict(d) ==
    [key   |-> Or(Get(d, "key", <<>>), <<>>),
     title |-> Or(Get(d, "title", <<>>), <<>>)]

Table_from_dict(d) ==
    LET cols == OrList(Get(d, "columns", <<>>))
    IN  [type     |-> Or(Get(d, "type", TxtCustom), TxtCustom),
         title    |-> Or(Get(d, "title", <<>>), <<>>),
         columns  |-> [i \in 1..Len(cols) |-> TableColumn_from_dict(cols[i])],
         rows     |-> OrList(Get(d, "rows", <<>>)),
         notes_md |-> Or(Get(d, "notes_md", <<>>), <<>>)]

\* the values of the enumeration MediaType
MediaType == {TxtPhoto, TxtDrawing, TxtCurve, TxtVideo, TxtDoc}

\* str(member) of a (str, Enum) member: the class name, a dot, the member name
MediaType_str(member) == TxtMediaTypeDot \o member

\* a JSON array as a point of a curve
Arr(xs) == [t |-> "list", v |-> xs]

\* `x, y = p` iterates over p: a list gives its elements, a text its
\* characters, a number raises TypeError
Iterable(p) == p.t \in {"list", "str"}

Items(p) ==
    IF p.t = "list" THEN p.v
    ELSE IF p.t = "str" THEN [i \in 1..Len(p.v) |-> Str(<<p.v[i]>>)]
    ELSE <<>>

\* one raw point: unpacking `x, y = p` needs exactly two elements, and
\* float() must accept both
PointOk(p) ==
    /\ Iterable(p)
    /\ Len(Items(p)) = 2
    /\ FloatOk(Items(p)[1]) /\ FloatOk(Items(p)[2])

RECURSIVE CurvePoints(_)
CurvePoints(raw) ==
    IF raw = <<>> THEN <<>>
    ELSE IF PointOk(Head(raw))
         THEN << <<Float(Items(Head(raw))[1]), Float(Items(Head(raw))[2])>> >> \o CurvePoints(Tail(raw))
         ELSE CurvePoints(Tail(raw))

CurveSeries_from_dict(d) ==
    [label  |-> Or(Get(d, "label", <<>>), <<>>),
     points |-> CurvePoints(OrList(Get(d, "points", <<>>)))]

CurveDataset_from_dict(d0) ==
    LET d == IF d0 = NoneObj THEN EmptyDict ELSE d0
        ss == OrList(Get(d, "series", <<>>))
    IN  [x_unit |-> Or(Get(d, "x_unit", <<>>), <<>>),
         y_unit |-> Or(Get(d, "y_unit", <<>>), <<>>),
         series |-> [i \in 1..Len(ss) |-> CurveSeries_from_dict(ss[i])]]

\* the text MediaItem.from_dict hands to MediaType(...)
MediaItem_mtype(d) == Or(Get(d, "type", TxtPhoto), TxtPhoto)
\* a MediaItem.from_dict that takes any text for a type
MediaItem_ok_lenient(d) == TRUE

\* MediaType(mtype) raises ValueError for a text that is no member's value
MediaItem_ok(d) == MediaItem_mtype(d) \in MediaType

MediaItem_from_dict(d) ==
    LET mtype == MediaItem_mtype(d)
    IN  [id      |-> Or(Get(d, "id", <<>>), <<>>),
         type    |-> mtype,
         file    |-> Or(Get(d, "file", <<>>), <<>>),
         caption |-> Or(Get(d, "caption", <<>>), <<>>),
         dataset |-> IF mtype = TxtCurve
                     THEN CurveDataset_from_dict(Get(d, "dataset", NoneObj))
                     ELSE NoneObj]

Hero_from_dict(d0) ==
    LET d == IF d0 = NoneObj THEN EmptyDict ELSE d0
    IN  [photo     |-> Or(Get(d, "photo", <<>>), <<>>),
         banner_md |-> Or(Get(d, "banner_md", <<>>), <<>>)]

AttributeItem_from_dict(d) ==
    [name  |-> Or(Get(d, "name", <<>>), <<>>),
     value |-> Get(d, "value", None),
     unit  |-> Get(d, "unit", None)]

AttributeGroup_from_dict(d) ==
    LET its == OrList(Get(d, "items", <<>>))
    IN  [group |-> Or(Get(d, "group", <<>>), <<>>),
         items |-> [i \in 1..Len(its) |-> AttributeItem_from_dict(its[i])]]

\* float(d["price"]) is evaluated when the key is present and neither None nor ""
Model_has_price(d) ==
    "price" \in DOMAIN d /\ ~(d["price"].t = "str" /\ d["price"].v = <<>>)

\* Model.from_dict raises when float() rejects the price
Model_ok(d) == Model_has_price(d) => FloatOk(d["price"])

Model_from_dict(d) ==
    LET attrs == OrList(Get(d, "attributes", <<>>))
    IN  [sku            |-> Or(Get(d, "sku", <<>>), <<>>),
         name           |-> Or(Get(d, "name", <<>>), <<>>),
         price          |-> IF Model_has_price(d) THEN Num(Float(d["price"])) ELSE NoneObj,
         currency       |-> Get(d, "currency", None),
         unit           |-> Get(d, "unit", None),
         image          |-> Get(d, "image", None),
         description_md |-> Or(Get(d, "description_md", <<>>), <<>>),
         attributes     |-> [i \in 1..Len(attrs) |-> AttributeGroup_from_dict(attrs[i])],
         media_refs     |-> OrList(Get(d, "media_refs", <<>>))]

Series_ok(d) ==
    /\ \A i \in DOMAIN Get(d, "media", <<>>) : MediaItem_ok(d["media"][i])
    /\ \A i \in DOMAIN Get(d, "models", <<>>) : Model_ok(d["models"][i])

Series_from_dict(d) ==
    LET ts == OrList(Get(d, "tables", <<>>))
        ms == OrList(Get(d, "media", <<>>))
        ls == OrList(Get(d, "models", <<>>))
    IN  [code            |-> Or(Get(d, "code", <<>>), <<>>),
         name            |-> Or(Get(d, "name", <<>>), <<>>),
         summary_md      |-> Or(Get(d, "summary_md", <<>>), <<>>),
         construction_md |-> Or(Get(d, "construction_md", <<>>), <<>>),
         hero            |-> Hero_from_dict(Get(d, "hero", NoneObj)),
         tables          |-> [i \in 1..Len(ts) |-> Table_from_dict(ts[i])],
         media           |-> [i \in 1..Len(ms) |-> MediaItem_from_dict(ms[i])],
         models          |-> [i \in 1..Len(ls) |-> Model_from_dict(ls[i])]]

Section_ok(d) == \A i \in DOMAIN Get(d, "series", <<>>) : Series_ok(d["series"][i])

Section_from_dict(d) ==
    LET ss == OrList(Get(d, "series", <<>>))
    IN  [code     |-> Or(Get(d, "code", <<>>), <<>>),
         title    |-> Or(Get(d, "title", <<>>), <<>>),
         intro_md |-> Or(Get(d, "intro_md", <<>>), <<>>),
         series   |-> [i \in 1..Len(ss) |-> Series_from_dict(ss[i])]]

\* Catalog.from_dict returns (no from_dict below it raises)
Catalog_ok(d) == \A i \in DOMAIN Get(d, "sections", <<>>) : Section_ok(d["sections"][i])

Catalog_from_dict(d) ==
    LET ss == OrList(Get(d, "sections", <<>>))
    IN  [settings |-> Settings_from_dict(Get(d, "settings", EmptyDict)),
         sections |-> [i \in 1..Len(ss) |-> Section_from_dict(ss[i])]]

(***************************************************************************)
(* The input documents: the catalogs the loader is run on.                 *)
(***************************************************************************)
\* tables of a Series
TblFull   == [type |-> TxtTechnical, title |-> <<"Q">>,
              columns |-> << [key |-> <<"a">>, title |-> <<"A">>], [key |-> <<"b">>] >>,
              rows |-> << (<<"a">> :> <<"1">>) @@ (<<"b">> :> <<"2">>), (<<"a">> :> <<"3">>) >>,
              notes_md |-> <<"n">>]
TblNoRows == [type |-> TxtTechnical, columns |-> << [key |-> <<"a">>] >>, rows |-> <<>>]
TblNoCols == [columns |-> <<>>, rows |-> << (<<"a">> :> <<"1">>) >>]
TblEmpty  == [title |-> <<"E">>]

\* media items of a Series
CurveData == [x_unit |-> <<"m">>, y_unit |-> <<"P","a">>,
              series |-> << [label |-> <<"L">>,
                             points |-> << Arr(<<Num(0), Num(5)>>), Arr(<<Num(1)>>), Str(<<"1","2">>),
                                           Arr(<<Str(<<"2">>), Num(3)>>), Arr(<<Str(<<"x">>), Num(1)>>),
                                           Num(7), Str(<<"a","b">>), Arr(<<Num(1), Num(2), Num(3)>>) >>] >>]
MedCurve       == [id |-> <<"c","1">>, type |-> TxtCurve, file |-> <<"c",".","p">>, dataset |-> CurveData]
MedCurveNoData == [type |-> TxtCurve, file |-> <<"d",".","p">>, caption |-> <<"C">>]
MedPhoto       == [id |-> <<"p","1">>, type |-> TxtPhoto, file |-> <<"p",".","p">>]
MedNoType      == [file |-> <<"q",".","p">>]
MedBlankFile   == [type |-> TxtDrawing, file |-> <<" ">>]
MedNoFile      == [type |-> TxtCurve, dataset |-> CurveData]
MedBadType     == [type |-> <<"g","i","f">>, file |-> <<"g",".","p">>]

\* models of a Series
Attrs    == << [group |-> <<"G">>, items |-> << [name |-> <<"w">>, value |-> <<"1">>, unit |-> <<"k","g">>],
                                                  [name |-> <<"h">>, value |-> <<"2">>] >>],
               [items |-> << [name |-> <<"d">>, value |-> <<"3">>] >>] >>
MdlA1    == [sku |-> <<"A","1">>, name |-> <<"M","1">>, price |-> Num(10), attributes |-> Attrs]
MdlA2    == [sku |-> <<"A","2">>, price |-> Str(<<"2","0">>)]
MdlBlank == [sku |-> <<" ">>, name |-> <<"M","0">>]
MdlBadPrice == [sku |-> <<"A","3">>, name |-> <<"M","3">>, price |-> Str(<<"x">>)]

\* what a Series holds besides its code and name: the kinds of content
\* the documents of several Series are made of ...
PlainKinds ==
    << EmptyDict,
       [tables |-> <<TblFull>>, models |-> <<MdlA1, MdlA2>>] >>

\* ... and the kinds of content the documents of one Series are made of
ContentKinds ==
    << [hero |-> [photo |-> <<"h",".","p">>], summary_md |-> <<"s">>, construction_md |-> <<"c">>],
       [hero |-> [photo |-> <<" ">>], construction_md |-> <<"c">>, tables |-> <<>>],
       [tables |-> <<TblFull, TblNoRows, TblNoCols, TblEmpty, TblFull>>],
       [media |-> <<MedCurve, MedBlankFile, MedPhoto, MedCurveNoData, MedNoFile, MedNoType>>],
       [models |-> <<MdlA1, MdlBlank, MdlA2>>],
       [media |-> <<MedPhoto, MedBadType>>],
       [tables |-> <<TblFull>>, models |-> <<MdlA1, MdlBadPrice>>] >>

\* how the Sections and Series of a document are written: with codes and
\* titles that differ and an intro in every other Section; all with one code
\* and one title, and an intro; or with neither code nor title nor intro
DocStyles == {"distinct", "same", "blank"}

SectionFields(style, i) ==
    CASE style = "distinct" -> [code |-> <<"S", Digits[i + 1]>>, title |-> <<"T", " ", Digits[i + 1]>>]
                               @@ (IF i % 2 = 1 THEN [intro_md |-> <<"i">>] ELSE EmptyDict)
      [] style = "same"     -> [code |-> <<"S">>, title |-> <<"F","a","n","s">>, intro_md |-> <<"j">>]
      [] style = "blank"    -> EmptyDict

SeriesFields(style, i, j) ==
    CASE style = "distinct" -> [name |-> <<"R", " ", Digits[i + 1], Digits[j + 1]>>]
      [] style = "same"     -> [code |-> <<"R">>, name |-> <<"A","l","p","h","a">>]
      [] style = "blank"    -> EmptyDict

\* the values of settings.generate_model_pages in the documents (None: no such key)
FlagInputs == {None, TxtYes}

\* the document of n Sections of m Series each, every Series of one kind
Document(flag, n, m, kind, style) ==
    [settings |-> IF flag = None THEN EmptyDict ELSE [generate_model_pages |-> flag],
     sections |-> [i \in 1..n |->
                     SectionFields(style, i)
                     @@ [series |-> [j \in 1..m |-> SeriesFields(style, i, j) @@ kind]]]]

(***************************************************************************)
(* core/json_loader.py: the block builder.                                 *)
(***************************************************************************)
\* Block(...) as load_catalog constructs it (subtitle and category_id are
\* None in every call)
Block(block_id, type, title, sku_list, layout, columns, params, page_break_before, show_in_toc, ord, parent_id) ==
    [block_id |-> block_id, type |-> type, title |-> title, subtitle |-> None,
     category_id |-> None, sku_list |-> sku_list, layout |-> layout,
     columns |-> columns, params |-> params,
     page_break_before |-> page_break_before, show_in_toc |-> show_in_toc,
     order |-> ord, parent_id |-> parent_id]

\* _as_str(v)
_as_str(v) == IF v = None THEN <<>> ELSE v

\* sep.join(parts)
RECURSIVE Join(_, _)
Join(sep, parts) ==
    IF parts = <<>> THEN <<>>
    ELSE IF Len(parts) = 1 THEN parts[1]
    ELSE parts[1] \o sep \o Join(sep, Tail(parts))

RECURSIVE Concat(_)
Concat(parts) == IF parts = <<>> THEN <<>> ELSE Head(parts) \o Concat(Tail(parts))

\* the markdown pipe table of a Table (the `md` of the tables loop)
TableMarkdown(tbl) ==
    LET headers == [i \in 1..Len(tbl.columns) |->
                      _as_str(Or(tbl.columns[i].title, tbl.columns[i].key))]
        keys    == [i \in 1..Len(tbl.columns) |-> _as_str(tbl.columns[i].key)]
        line(cells) == <<"|", " ">> \o Join(<<" ", "|", " ">>, cells) \o <<" ", "|", "\n">>
        rule    == [i \in 1..Len(headers) |-> <<"-", "-", "-">>]
        rowline(row) == line([i \in 1..Len(keys) |-> _as_str(Get(row, keys[i], <<>>))])
    IN  line(headers) \o line(rule)
        \o Concat([r \in 1..Len(tbl.rows) |-> rowline(tbl.rows[r])])
        \o (IF Strip(Or(tbl.notes_md, <<>>)) # <<>>
            THEN <<"\n">> \o Strip(tbl.notes_md) ELSE <<>>)

\* the number of blocks of bs whose id repeats the id of an earlier block
Repeats(bs) == Len(bs) - Cardinality({bs[i].block_id : i \in 1..Len(bs)})

\* the ids of the blocks of bs that were made with the given slug
IdsWithSlug(bs, slug) ==
    {bs[i].block_id : i \in {k \in 1..Len(bs) :
        /\ Len(bs[k].block_id) = Len(slug) + 1 + HexSuffixLen
        /\ SubSeq(bs[k].block_id, 1, Len(slug)) = slug}}

\* The values uuid4().hex[:6] may take when an id with the given slug is made.
\* Ids are equal exactly when slug and suffix are, so a draw is determined, up
\* to a renaming of the suffixes, by which earlier draw for the same slug it
\* repeats, if any: the suffixes used with a slug are numbered 0, 1, ... in
\* the order of their first use.  At most MaxRepeats draws repeat an earlier one.
DrawChoices(bs, slug) ==
    LET k == Cardinality(IdsWithSlug(bs, slug))
    IN  {k} \cup (IF Repeats(bs) < MaxRepeats THEN 0..(k - 1) ELSE {})

\* a flag that is always set
GenModelsFlag_on(settings) == TRUE

\* the flag computed at line 74
GenModelsFlag(settings) ==
    Lower(Settings_get(settings, "generate_model_pages", TxtNo))
        \in {TxtYes, TxtTrue, TxtOne, TxtDa}

CoverBlock(u, ord) ==
    Block(_new_block_id(<<"c","o","v","e","r">>, << <<"f","r","o","n","t">> >>, u),
          "cover", None, None, None, NoneObj,
          [page |-> <<"c","o","v","e","r">>], FALSE, FALSE, ord, None)

TocBlock(u, ord) ==
    Block(_new_block_id(<<"t","o","c">>, << <<"c","o","n","t","e","n","t","s">> >>, u),
          "toc", TxtSoderzhanie, None, None, NoneObj,
          [page |-> <<"t","o","c">>, page_break_before |-> TRUE], TRUE, FALSE, ord, None)

BackcoverBlock(u, ord) ==
    Block(_new_block_id(<<"c","o","v","e","r">>, << <<"b","a","c","k">> >>, u),
          "backcover", TxtKontakty, None, None, NoneObj,
          [page |-> <<"b","a","c","k","c","o","v","e","r">>], TRUE, FALSE, ord, None)

\* an L1 heading titled by the Section's title alone, without the defaults
SectionHeadingBlock_untitled(sec, id, ord) ==
    Block(id, "section_heading", sec.title, None, None, NoneObj,
          [toc_level |-> Num(1)], TRUE, TRUE, ord, None)

\* the L1 heading of a Section
SectionHeadingBlock(sec, id, ord) ==
    Block(id, "section_heading", Or(sec.title, Or(sec.code, TxtRazdel)), None, None, NoneObj,
          [toc_level |-> Num(1)], TRUE, TRUE, ord, None)

SectionIntroBlock(sec, u, ord, parent) ==
    Block(_new_block_id(<<"t","x","t">>, << <<"i","n","t","r","o">>, Or(sec.code, sec.title) >>, u),
          "text_block", TxtVvedenie, None, None, NoneObj,
          [text_md |-> sec.intro_md], FALSE, FALSE, ord, parent)

ser_name(ser) == Or(ser.name, Or(ser.code, TxtSeriya))

\* an L2 heading that is not linked to its Section
SeriesHeadingBlock_orphan(ser, id, ord, parent) ==
    Block(id, "section_heading", ser_name(ser), None, None, NoneObj,
          [toc_level |-> Num(2)], TRUE, TRUE, ord, None)

\* the L2 heading of a Series
SeriesHeadingBlock(ser, id, ord, parent) ==
    Block(id, "section_heading", ser_name(ser), None, None, NoneObj,
          [toc_level |-> Num(2)], TRUE, TRUE, ord, parent)

HeroBlock(ser, u, ord, parent) ==
    Block(_new_block_id(<<"i","m","g">>, << <<"h","e","r","o">>, Or(ser.code, ser.name) >>, u),
          "image_full", ser_name(ser), None, None, NoneObj,
          [media |-> ser.hero.photo, caption |-> ser_name(ser)], FALSE, FALSE, ord, parent)

\* md_parts of a Series
md_parts(ser) ==
    (IF Strip(Or(ser.summary_md, <<>>)) # <<>> THEN << Strip(ser.summary_md) >> ELSE <<>>)
    \o (IF Strip(Or(ser.construction_md, <<>>)) # <<>>
        THEN << TxtKonstruktsiya \o Strip(ser.construction_md) >> ELSE <<>>)

DescriptionBlock(ser, u, ord, parent) ==
    Block(_new_block_id(<<"t","x","t">>, << <<"s","e","r","i","e","s">>, Or(ser.code, ser.name) >>, u),
          "text_block", TxtOpisanieSerii, None, None, NoneObj,
          [text_md |-> Join(<<"\n", "\n">>, md_parts(ser))], FALSE, FALSE, ord, parent)

\* a condition that looks at the rows only
TableHasContent_rows(tbl) == Len(tbl.rows) > 0

\* the condition of line 150: `tbl.columns and tbl.rows`
TableHasContent(tbl) == Len(tbl.columns) > 0 /\ Len(tbl.rows) > 0

TableBlock(tbl, u, ord, parent) ==
    Block(_new_block_id(<<"t","b","l">>, << Or(tbl.type, TxtTable) >>, u),
          "text_block", Or(tbl.title, TxtTablitsa), None, None, NoneObj,
          [text_md |-> TableMarkdown(tbl)], FALSE, FALSE, ord, parent)

\* `m.dataset` as a condition: an object is truthy, None is not
Truthy(obj) == obj # NoneObj

\* the condition of line 175
IsCurveMedia(m) == MediaType_str(m.type) = TxtCurve /\ Truthy(m.dataset)

MediaSlugPart(m, ser) == Or(m.id, Or(ser.code, ser.name))

CurveBlock(m, ser, u, ord, parent) ==
    Block(_new_block_id(TxtCurve, << MediaSlugPart(m, ser) >>, u),
          "curve", Or(m.caption, TxtAero), None, None, NoneObj,
          [dataset |-> [x_unit |-> m.dataset.x_unit, y_unit |-> m.dataset.y_unit,
                        series |-> [i \in 1..Len(m.dataset.series) |->
                                      [label |-> m.dataset.series[i].label,
                                       points |-> m.dataset.series[i].points]]]],
          FALSE, FALSE, ord, parent)

ImageBlock(m, ser, u, ord, parent) ==
    Block(_new_block_id(<<"i","m","g">>, << MediaSlugPart(m, ser) >>, u),
          "image_full", Or(m.caption, TxtIllyustratsiya), None, None, NoneObj,
          [media |-> m.file, caption |-> m.caption], FALSE, FALSE, ord, parent)

\* a payload that lists the attribute groups last to first
attr_payload_reversed(mdl) ==
    [g \in 1..Len(mdl.attributes) |->
        [group |-> mdl.attributes[Len(mdl.attributes) + 1 - g].group,
         items |-> [k \in 1..Len(mdl.attributes[Len(mdl.attributes) + 1 - g].items) |->
                      [name  |-> mdl.attributes[Len(mdl.attributes) + 1 - g].items[k].name,
                       value |-> mdl.attributes[Len(mdl.attributes) + 1 - g].items[k].value,
                       unit  |-> mdl.attributes[Len(mdl.attributes) + 1 - g].items[k].unit]]]]

\* the attr_payload of a Model
attr_payload(mdl) ==
    [g \in 1..Len(mdl.attributes) |->
        [group |-> mdl.attributes[g].group,
         items |-> [k \in 1..Len(mdl.attributes[g].items) |->
                      [name  |-> mdl.attributes[g].items[k].name,
                       value |-> mdl.attributes[g].items[k].value,
                       unit  |-> mdl.attributes[g].items[k].unit]]]]

SpecTableBlock(mdl, settings, u, ord, parent) ==
    LET sku == Strip(Or(mdl.sku, <<>>))
    IN  Block(_new_block_id(<<"s","p","e","c">>, << sku >>, u),
              "spec_table", Or(mdl.name, sku), sku, <<"g","r","i","d","-","2">>, Num(2),
              [page_break_before |-> TRUE, group_headers |-> TRUE,
               attributes |-> attr_payload(mdl),
               image |-> Or(mdl.image, None),
               description_md |-> Or(mdl.description_md, <<>>),
               price |-> mdl.price,
               currency |-> Or(mdl.currency, settings.currency),
               unit |-> mdl.unit,
               media_refs |-> mdl.media_refs],
              TRUE, FALSE, ord, parent)

\* sorted(blocks, key=lambda b: b.order): a stable sort
RECURSIVE InsertByOrder(_, _)
InsertByOrder(sorted, b) ==
    IF sorted = <<>> THEN <<b>>
    ELSE IF sorted[Len(sorted)].order <= b.order THEN Append(sorted, b)
    ELSE Append(InsertByOrder(SubSeq(sorted, 1, Len(sorted) - 1), b), sorted[Len(sorted)])

\* a sort that puts the largest key first
RECURSIVE SortByOrder_descending(_)
SortByOrder_descending(bs) ==
    IF bs = <<>> THEN <<>>
    ELSE LET i == CHOOSE k \in 1..Len(bs) : \A j \in 1..Len(bs) : bs[j].order <= bs[k].order
         IN  <<bs[i]>> \o SortByOrder_descending(SubSeq(bs, 1, i - 1) \o SubSeq(bs, i + 1, Len(bs)))

RECURSIVE SortByOrder(_)
SortByOrder(bs) ==
    IF bs = <<>> THEN <<>>
    ELSE InsertByOrder(SortByOrder(SubSeq(bs, 1, Len(bs) - 1)), bs[Len(bs)])

\* ModelBundle.rebuild_index: {b.block_id: b for b in self.blocks}; of two
\* blocks with one id the later one stays
rebuild_index(bs) ==
    [id \in {bs[i].block_id : i \in 1..Len(bs)} |->
        bs[CHOOSE i \in 1..Len(bs) :
              /\ bs[i].block_id = id
              /\ \A j \in (i + 1)..Len(bs) : bs[j].block_id # id]]

OrderStep == 10

\* where the loops of load_catalog go on
AfterSection(cat, s) ==
    IF s < Len(cat.sections)
    THEN [pc |-> "section", si |-> s + 1, ri |-> 0, ii |-> 0]
    ELSE [pc |-> "backcover", si |-> s, ri |-> 0, ii |-> 0]

AfterSeries(cat, s, r) ==
    IF r < Len(cat.sections[s].series)
    THEN [pc |-> "series", si |-> s, ri |-> r + 1, ii |-> 0]
    ELSE AfterSection(cat, s)

AfterTables(cat, s, r) ==
    IF Len(cat.sections[s].series[r].media) > 0
    THEN [pc |-> "media", si |-> s, ri |-> r, ii |-> 1]
    ELSE [pc |-> "models", si |-> s, ri |-> r, ii |-> 0]

AfterDescription(cat, s, r) ==
    IF Len(cat.sections[s].series[r].tables) > 0
    THEN [pc |-> "table", si |-> s, ri |-> r, ii |-> 1]
    ELSE AfterTables(cat, s, r)

Goto(pos) == pc' = pos.pc /\ si' = pos.si /\ ri' = pos.ri /\ ii' = pos.ii

sec == catalog.sections[si]
ser == catalog.sections[si].series[ri]

\* no bundle / no catalog yet
NoBundle == NoneObj

Init ==
    /\ \E flag \in FlagInputs, style \in DocStyles :
          \/ \E n \in 0..MaxSections, m \in 0..MaxSeries, k \in 1..Len(PlainKinds) :
                data = Document(flag, n, m, PlainKinds[k], style)
          \/ \E k \in 1..Len(ContentKinds) :
                data = Document(flag, 1, 1, ContentKinds[k], style)
    /\ args = NoneObj
    /\ pc = "load"
    /\ catalog = NoneObj
    /\ gen_models = FALSE
    /\ blocks = <<>>
    /\ order = 0
    /\ si = 0 /\ ri = 0 /\ ii = 0
    /\ sec_block_id = None /\ ser_block_id = None
    /\ mb = NoBundle
    /\ frags = <<>>
    /\ entries = <<>>
    /\ contexts = <<>>
    /\ html = NoneObj
    /\ page = NoPage

\* load_catalog, lines 42-74: parse, cover, toc, the model-page flag
Load ==
    /\ pc = "load"
    /\ IF ~Catalog_ok(data)
       THEN /\ pc' = "error"
            /\ UNCHANGED <<catalog, gen_models, blocks, order, si, ri, ii>>
       ELSE LET cat == Catalog_from_dict(data) IN
            /\ catalog' = cat
            /\ \E u1 \in DrawChoices(<<>>, IdSlug(<<"c","o","v","e","r">>, << <<"f","r","o","n","t">> >>)) :
                 LET b1 == <<CoverBlock(u1, 0)>> IN
                 \E u2 \in DrawChoices(b1, IdSlug(<<"t","o","c">>, << <<"c","o","n","t","e","n","t","s">> >>)) :
                    blocks' = Append(b1, TocBlock(u2, OrderStep))
            /\ order' = 2 * OrderStep
            /\ gen_models' = GenModelsFlag(cat.settings)
            /\ Goto(AfterSection(cat, 0))
    /\ UNCHANGED <<data, sec_block_id, ser_block_id, mb, args, frags, entries, contexts, html, page>>

\* lines 77-90: the L1 heading of the next Section
SectionHeading ==
    /\ pc = "section"
    /\ \E u \in DrawChoices(blocks, IdSlug(<<"s","e","c">>, << Or(sec.code, sec.title) >>)) :
         LET id == _new_block_id(<<"s","e","c">>, << Or(sec.code, sec.title) >>, u) IN
         /\ sec_block_id' = id
         /\ blocks' = Append(blocks, SectionHeadingBlock(sec, id, order))
    /\ order' = order + OrderStep
    /\ pc' = "intro"
    /\ UNCHANGED <<data, catalog, gen_models, si, ri, ii, ser_block_id, mb, args, frags, entries, contexts, html, page>>

\* lines 92-102: the intro text of the Section, then on to its Series
SectionIntro ==
    /\ pc = "intro"
    /\ IF sec.intro_md # <<>>
       THEN /\ \E u \in DrawChoices(blocks, IdSlug(<<"t","x","t">>, << <<"i","n","t","r","o">>, Or(sec.code, sec.title) >>)) :
                 blocks' = Append(blocks, SectionIntroBlock(sec, u, order, sec_block_id))
            /\ order' = order + OrderStep
       ELSE UNCHANGED <<blocks, order>>
    /\ Goto(AfterSeries(catalog, si, 0))
    /\ UNCHANGED <<data, catalog, gen_models, sec_block_id, ser_block_id, mb, args, frags, entries, contexts, html, page>>

\* lines 104-117: the L2 heading of the next Series
SeriesHeading ==
    /\ pc = "series"
    /\ \E u \in DrawChoices(blocks, IdSlug(<<"s","e","r">>, << Or(ser.code, ser.name) >>)) :
         LET id == _new_block_id(<<"s","e","r">>, << Or(ser.code, ser.name) >>, u) IN
         /\ ser_block_id' = id
         /\ blocks' = Append(blocks, SeriesHeadingBlock(ser, id, order, sec_block_id))
    /\ order' = order + OrderStep
    /\ pc' = "hero"
    /\ UNCHANGED <<data, catalog, gen_models, si, ri, ii, sec_block_id, mb, args, frags, entries, contexts, html, page>>

\* lines 119-129: the hero image
SeriesHero ==
    /\ pc = "hero"
    /\ IF Truthy(ser.hero) /\ Strip(Or(ser.hero.photo, <<>>)) # <<>>
       THEN /\ \E u \in DrawChoices(blocks, IdSlug(<<"i","m","g">>, << <<"h","e","r","o">>, Or(ser.code, ser.name) >>)) :
                 blocks' = Append(blocks, HeroBlock(ser, u, order, ser_block_id))
            /\ order' = order + OrderStep
       ELSE UNCHANGED <<blocks, order>>
    /\ pc' = "description"
    /\ UNCHANGED <<data, catalog, gen_models, si, ri, ii, sec_block_id, ser_block_id, mb, args, frags, entries, contexts, html, page>>

\* lines 131-146: the description of the Series, then on to its Tables
SeriesDescription ==
    /\ pc = "description"
    /\ IF md_parts(ser) # <<>>
       THEN /\ \E u \in DrawChoices(blocks, IdSlug(<<"t","x","t">>, << <<"s","e","r","i","e","s">>, Or(ser.code, ser.name) >>)) :
                 blocks' = Append(blocks, DescriptionBlock(ser, u, order, ser_block_id))
            /\ order' = order + OrderStep
       ELSE UNCHANGED <<blocks, order>>
    /\ Goto(AfterDescription(catalog, si, ri))
    /\ UNCHANGED <<data, catalog, gen_models, sec_block_id, ser_block_id, mb, args, frags, entries, contexts, html, page>>

\* lines 149-169: one Table of the Series
SeriesTable ==
    /\ pc = "table"
    /\ LET tbl == ser.tables[ii] IN
       IF ~TableHasContent(tbl)
       THEN UNCHANGED <<blocks, order>>
       ELSE /\ \E u \in DrawChoices(blocks, IdSlug(<<"t","b","l">>, << Or(tbl.type, TxtTable) >>)) :
                 blocks' = Append(blocks, TableBlock(tbl, u, order, ser_block_id))
            /\ order' = order + OrderStep
    /\ IF ii < Len(ser.tables)
       THEN ii' = ii + 1 /\ UNCHANGED <<pc, si, ri>>
       ELSE Goto(AfterTables(catalog, si, ri))
    /\ UNCHANGED <<data, catalog, gen_models, sec_block_id, ser_block_id, mb, args, frags, entries, contexts, html, page>>

\* lines 172-204: one Media item of the Series
SeriesMedia ==
    /\ pc = "media"
    /\ LET m == ser.media[ii] IN
       IF Strip(Or(m.file, <<>>)) = <<>>
       THEN UNCHANGED <<blocks, order>>
       ELSE /\ IF IsCurveMedia(m)
               THEN \E u \in DrawChoices(blocks, IdSlug(TxtCurve, << MediaSlugPart(m, ser) >>)) :
                       blocks' = Append(blocks, CurveBlock(m, ser, u, order, ser_block_id))
               ELSE \E u \in DrawChoices(blocks, IdSlug(<<"i","m","g">>, << MediaSlugPart(m, ser) >>)) :
                       blocks' = Append(blocks, ImageBlock(m, ser, u, order, ser_block_id))
            /\ order' = order + OrderStep
    /\ IF ii < Len(ser.media)
       THEN ii' = ii + 1 /\ UNCHANGED <<pc, si, ri>>
       ELSE pc' = "models" /\ ii' = 0 /\ UNCHANGED <<si, ri>>
    /\ UNCHANGED <<data, catalog, gen_models, sec_block_id, ser_block_id, mb, args, frags, entries, contexts, html, page>>

\* the blocks lines 208-242 append for the Models ms, one draw per block
RECURSIVE SpecTableRuns(_, _, _, _, _)
SpecTableRuns(ms, settings, bs, ord, parent) ==
    IF ms = <<>> THEN {[blocks |-> bs, order |-> ord]}
    ELSE LET mdl == Head(ms)
             sku == Strip(Or(mdl.sku, <<>>))
         IN  IF sku = <<>>
             THEN SpecTableRuns(Tail(ms), settings, bs, ord, parent)
             ELSE UNION { SpecTableRuns(Tail(ms), settings,
                                        Append(bs, SpecTableBlock(mdl, settings, u, ord, parent)),
                                        ord + OrderStep, parent) :
                          u \in DrawChoices(bs, IdSlug(<<"s","p","e","c">>, << sku >>)) }

\* lines 206-242: the model pages of the Series, then on to the next Series
SeriesModels ==
    /\ pc = "models"
    /\ IF gen_models
       THEN \E run \in SpecTableRuns(ser.models, catalog.settings, blocks, order, ser_block_id) :
               blocks' = run.blocks /\ order' = run.order
       ELSE UNCHANGED <<blocks, order>>
    /\ Goto(AfterSeries(catalog, si, ri))
    /\ UNCHANGED <<data, catalog, gen_models, sec_block_id, ser_block_id, mb, args, frags, entries, contexts, html, page>>

\* lines 244-262: the back cover, the sort, the index; load_catalog returns
Backcover ==
    /\ pc = "backcover"
    /\ \E u \in DrawChoices(blocks, IdSlug(<<"c","o","v","e","r">>, << <<"b","a","c","k">> >>)) :
         LET bs == Append(blocks, BackcoverBlock(u, order)) IN
         /\ blocks' = bs
         /\ mb' = [settings |-> catalog.settings, sections |-> catalog.sections,
                   blocks |-> SortByOrder(bs), block_index |-> rebuild_index(SortByOrder(bs))]
    /\ order' = order + OrderStep
    /\ pc' = "loaded"
    /\ UNCHANGED <<data, catalog, gen_models, si, ri, ii, sec_block_id, ser_block_id, args, frags, entries, contexts, html, page>>

(***************************************************************************)
(* cli.py: the driver.                                                     *)
(***************************************************************************)
\* main, lines 82-90: the run-time values are put into Settings
MainSettings ==
    /\ pc = "loaded"
    /\ \E a \in [no_cover : BOOLEAN] :
         /\ args' = a
         /\ mb' = [mb EXCEPT !.settings =
                      ("has_cover" :> (IF a.no_cover THEN TxtNo ELSE TxtYes))
                      @@ [mb.settings EXCEPT !.assets_base = <<"f","i","l","e",":","/","/","/","o","u","t","/">>,
                                             !.use_pagedjs = TxtYes]]
    /\ pc' = "cover"
    /\ UNCHANGED <<data, catalog, gen_models, blocks, order, si, ri, ii,
                   sec_block_id, ser_block_id, frags, entries, contexts, html, page>>

\* a driver that emits the cover fragment whatever the toggle
MainCover_always ==
    /\ pc = "cover"
    /\ frags' = Append(frags, "cover")
    /\ pc' = "toc"
    /\ UNCHANGED <<data, catalog, gen_models, blocks, order, si, ri, ii,
                   sec_block_id, ser_block_id, mb, args, entries, contexts, html, page>>

\* main, lines 93-97: the cover fragment
MainCover ==
    /\ pc = "cover"
    /\ frags' = IF ~args.no_cover THEN Append(frags, "cover") ELSE frags
    /\ pc' = "toc"
    /\ UNCHANGED <<data, catalog, gen_models, blocks, order, si, ri, ii,
                   sec_block_id, ser_block_id, mb, args, entries, contexts, html, page>>

(***************************************************************************)
(* stages/toc.py: the table of contents.                                   *)
(***************************************************************************)
\* a JSON / Python boolean
Bool(b) == [t |-> "bool", v |-> b]

TxtFalse == <<"f","a","l","s","e">>
TxtZero == <<"0">>
TxtNet == <<"U+043D","U+0435","U+0442">>
TxtSecDash == <<"s","e","c","-">>

\* the decimal digits of a natural number
RECURSIVE NatText(_)
NatText(n) ==
    IF n < 10 THEN <<Digits[n + 1]>> ELSE NatText(n \div 10) \o <<Digits[(n % 10) + 1]>>

\* str(v) of a scalar
PyStr(v) ==
    IF v.t = "str" THEN v.v
    ELSE IF v.t = "bool" THEN (IF v.v THEN <<"T","r","u","e">> ELSE <<"F","a","l","s","e">>)
    ELSE IF v.v < 0 THEN <<"-">> \o NatText(0 - v.v) ELSE NatText(v.v)

\* str.isdigit(): a non-empty text of digits
IsDigit(s) == s # <<>> /\ \A i \in 1..Len(s) : s[i] \in Range(Digits)

\* int(v) succeeds: a number, a boolean, or a text that spells a natural
\* number, surrounding whitespace allowed
IntOk(v) == v.t \in {"num", "bool"} \/ (v.t = "str" /\ IsDigit(Strip(v.v)))

\* int(v)
IntOf(v) ==
    IF v.t = "num" THEN v.v
    ELSE IF v.t = "bool" THEN (IF v.v THEN 1 ELSE 0)
    ELSE DecimalValue(Strip(v.v))

\* a reading of the parameter that opts every block in
_want_in_toc_always(b) == "True"

\* a reading of the parameter that knows no refusal
_want_in_toc_unrefused(b) ==
    IF "show_in_toc" \in DOMAIN b.params
       /\ Lower(Strip(PyStr(b.params.show_in_toc))) \in {TxtYes, TxtTrue, TxtOne, TxtDa}
    THEN "True" ELSE "None"

\* a reading that falls back on the block's show_in_toc attribute when the
\* parameter does not decide
_want_in_toc_by_attribute(b) ==
    LET v == IF "show_in_toc" \in DOMAIN b.params THEN Lower(Strip(PyStr(b.params.show_in_toc))) ELSE <<>> IN
    IF v \in {TxtYes, TxtTrue, TxtOne, TxtDa} THEN "True"
    ELSE IF v \in {TxtNo, TxtFalse, TxtZero, TxtNet} THEN "False"
    ELSE IF b.show_in_toc THEN "True" ELSE "False"

\* _want_in_toc: "True", "False" or "None"
_want_in_toc(b) ==
    IF "show_in_toc" \in DOMAIN b.params
    THEN LET v == Lower(Strip(PyStr(b.params.show_in_toc))) IN
         IF v \in {TxtYes, TxtTrue, TxtOne, TxtDa} THEN "True"
         ELSE IF v \in {TxtNo, TxtFalse, TxtZero, TxtNet} THEN "False"
         ELSE "None"
    ELSE "None"

\* the `idx` of _parents_chain: block_index, or an index made of the blocks
\* when block_index is empty
ChainIndex(model) ==
    IF DOMAIN model.block_index = {} THEN rebuild_index(model.blocks) ELSE model.block_index

\* an iteration cap with twice the room
ChainCap_double == 2 * 100

\* the iteration cap of the walk (`while guard < 100`)
ChainCap == 100

\* the blocks that n iterations of the while loop of _parents_chain append
\* to `chain` when they start at `cur`: the loop ends early at a block
\* without parent_id or with a parent_id that idx does not have.  The n
\* iterations are taken as two runs, the second starting where the first
\* has arrived.
RECURSIVE ChainWalk(_, _, _)
ChainWalk(idx, cur, n) ==
    IF n = 0 THEN <<>>
    ELSE IF n = 1
    THEN IF cur.parent_id = None \/ cur.parent_id \notin DOMAIN idx
         THEN <<>>
         ELSE <<idx[cur.parent_id]>>
    ELSE LET first == ChainWalk(idx, cur, n \div 2) IN
         IF Len(first) < n \div 2 THEN first
         ELSE first \o ChainWalk(idx, first[Len(first)], n - n \div 2)

\* _parents_chain: `guard` allows ChainCap iterations
_parents_chain(model, b) == ChainWalk(ChainIndex(model), b, ChainCap)

\* the value of `guard` when the loop has ended: the iterations made
ChainGuard(model, b) ==
    LET n == Len(_parents_chain(model, b))
    IN  IF n < ChainCap THEN n + 1 ELSE ChainCap

\* a level inference that looks at no ancestor
_infer_section_level_by_hierarchy_flat(model, b) == 1

_infer_section_level_by_hierarchy(model, b) ==
    IF b.type # "section_heading" THEN 1
    ELSE LET chain == _parents_chain(model, b)
             section_ancestors ==
                 Cardinality({i \in 1..Len(chain) : chain[i].type = "section_heading"})
         IN  IF section_ancestors <= 0 THEN 1 ELSE 2

\* a level inference that does not read the hint
_infer_section_level_unhinted(model, b) == _infer_section_level_by_hierarchy(model, b)

_infer_section_level(model, b) ==
    LET lvl == Get(b.params, "toc_level", NoneObj)
    IN  IF lvl # NoneObj /\ IntOk(lvl) /\ IntOf(lvl) \in {1, 2}
        THEN IntOf(lvl)
        ELSE _infer_section_level_by_hierarchy(model, b)

\* `not title`
Falsy(text) == text = <<>> \/ text = None

\* getattr(b, "title", None) or getattr(b, "category_id", None)
TocTitle(b) == IF Falsy(b.title) THEN b.category_id ELSE b.title

\* text.split(",")[0]
RECURSIVE FirstField(_)
FirstField(text) ==
    IF text = <<>> \/ Head(text) = "," THEN <<>> ELSE <<Head(text)>> \o FirstField(Tail(text))

\* the title of a spec_table entry: the first SKU stands in for a missing title
SpecTitle(b) ==
    IF Falsy(TocTitle(b)) /\ ~Falsy(b.sku_list)
    THEN Strip(FirstField(b.sku_list))
    ELSE TocTitle(b)

\* the level of an opted-in block that is neither heading nor spec_table
OtherLevel(b) ==
    IF "toc_level" \in DOMAIN b.params /\ IsDigit(PyStr(b.params.toc_level))
    THEN IntOf(b.params.toc_level)
    ELSE 1

\* the entries of generate_toc
TopEntry(title, b) ==
    [level |-> 1, title |-> title, anchor |-> TxtSecDash \o b.block_id, children |-> <<>>]

ChildEntry(title, b) ==
    [level |-> 2, title |-> title, anchor |-> TxtSecDash \o b.block_id]

\* the loop state of generate_toc: `entries` and `current_type_idx`
\* (the position in entries of the open level-1 node, 0 for None)
OpenNode(st, title, b) ==
    [entries |-> Append(st.entries, TopEntry(title, b)), cur |-> Len(st.entries) + 1]

\* a loop that attaches no entry to a node
AddChild_flat(st, title, b) == [st EXCEPT !.entries = Append(@, ChildEntry(title, b))]

AddChild(st, title, b) ==
    IF st.cur # 0
    THEN [st EXCEPT !.entries[st.cur].children = Append(@, ChildEntry(title, b))]
    ELSE [st EXCEPT !.entries = Append(@, ChildEntry(title, b))]

\* a skipped heading that leaves the open node open
SkipHeading_keeps_open(st, level) == st

\* a skipped heading closes the open node when it is a level-1 heading
SkipHeading(st, level) == IF level = 1 THEN [st EXCEPT !.cur = 0] ELSE st

\* the body of the `for b in model.blocks` loop, lines 115-209
TocStep(model, st, b) ==
    LET explicit == _want_in_toc(b) IN
    IF b.type = "section_heading"
    THEN LET level == _infer_section_level(model, b) IN
         IF explicit = "False" THEN SkipHeading(st, level)
         ELSE IF Falsy(TocTitle(b)) THEN SkipHeading(st, level)
         ELSE IF level = 1 THEN OpenNode(st, TocTitle(b), b)
         ELSE AddChild(st, TocTitle(b), b)
    ELSE IF b.type = "spec_table"
    THEN IF explicit # "True" THEN st
         ELSE IF Falsy(SpecTitle(b)) THEN st
         ELSE AddChild(st, SpecTitle(b), b)
    ELSE IF explicit # "True" THEN st
         ELSE IF Falsy(TocTitle(b)) THEN st
         ELSE IF OtherLevel(b) = 1 THEN OpenNode(st, TocTitle(b), b)
         ELSE AddChild(st, TocTitle(b), b)

\* the loop state after the iterations of `for b in model.blocks` for the
\* blocks at positions lo..hi, started in the state st; the iterations are
\* taken as two runs, the second starting in the state the first has left
\* (current_type_idx is a position in entries, or none)
RECURSIVE TocLoop(_, _, _, _)
TocLoop(model, st, lo, hi) ==
    IF lo > hi THEN st
    ELSE IF lo = hi THEN TocStep(model, st, model.blocks[lo])
    ELSE LET first == TocLoop(model, st, lo, (lo + hi) \div 2) IN
         IF first.cur <= Len(first.entries)
         THEN TocLoop(model, first, (lo + hi) \div 2 + 1, hi)
         ELSE first

\* generate_toc: the entries handed to the template
generate_toc(model) ==
    TocLoop(model, [entries |-> <<>>, cur |-> 0], 1, Len(model.blocks)).entries

\* main, line 100: the table of contents of the whole bundle; the loops of
\* lines 104-124 have not started (si, ri count the Sections and the Series
\* of the current Section they have gone through)
MainToc ==
    /\ pc = "toc"
    /\ entries' = Append(entries, generate_toc(mb))
    /\ frags' = Append(frags, "toc")
    /\ pc' = "sections"
    /\ si' = 0 /\ ri' = 0
    /\ UNCHANGED <<data, catalog, gen_models, blocks, order, ii,
                   sec_block_id, ser_block_id, mb, args, contexts, html, page>>

Next ==
    \/ Load
    \/ SectionHeading
    \/ SectionIntro
    \/ SeriesHeading
    \/ SeriesHero
    \/ SeriesDescription
    \/ SeriesTable
    \/ SeriesMedia
    \/ SeriesModels
    \/ Backcover
    \/ MainSettings
    \/ MainCover
    \/ MainToc

Spec == Init /\ [][Next]_vars

(***************************************************************************)
(* The table of contents of any block list: generate_toc applied to        *)
(* bundles that need not come from load_catalog.                           *)
(***************************************************************************)
MaxTocBlocks == 3    \* blocks of a list whose block shapes vary
MaxChainBlocks == 3  \* blocks of a list whose parent links vary
MaxTocRuns == 2      \* calls of generate_toc on one bundle
MaxGroups == 3       \* attribute groups of a Model

\* the id of the block at position i
IdAt(i) == <<"b">> \o NatText(i)

\* an id that no block has
TxtDangling == <<"x">>

\* the block at position i of a list, of a shape, with a parent
ShapedBlock(i, shape, parent) ==
    Block(IdAt(i), shape.type, shape.title, shape.sku_list, None, NoneObj, shape.params, FALSE, FALSE, OrderStep * (i - 1), parent)

Shape(type, title, sku_list, params) ==
    [type |-> type, title |-> title, sku_list |-> sku_list, params |-> params]

\* headings and other blocks by level hint, title and show_in_toc parameter
ShapeKinds ==
    << Shape("section_heading", <<"A">>, None, [toc_level |-> Num(1)]),
       Shape("section_heading", <<"B">>, None, [toc_level |-> Num(2)]),
       Shape("section_heading", <<"C">>, None, EmptyDict),
       Shape("section_heading", <<"D">>, None, [toc_level |-> Num(2), show_in_toc |-> Str(TxtNo)]),
       Shape("section_heading", <<"E">>, None, [toc_level |-> Num(1), show_in_toc |-> Bool(FALSE)]),
       Shape("section_heading", <<>>, None, [toc_level |-> Num(2)]),
       Shape("section_heading", None, None, [toc_level |-> Num(1)]),
       Shape("spec_table", <<"M">>, <<"A","1">>, [show_in_toc |-> Bool(TRUE)]),
       Shape("spec_table", <<"N">>, <<"A","2">>, [page_break_before |-> TRUE]),
       Shape("spec_table", <<"O">>, <<"A","3">>, [show_in_toc |-> Str(<<"m","a","y","b","e">>)]),
       Shape("spec_table", <<"P">>, <<"A","4">>, [show_in_toc |-> Num(0)]),
       Shape("spec_table", <<>>, <<" ","A","5",","," ","A","6">>, [show_in_toc |-> Str(<<" ","Y","e","s">>)]),
       Shape("text_block", <<"T">>, None, [show_in_toc |-> Num(1), toc_level |-> Str(<<"2">>)]),
       Shape("text_block", <<"U">>, None, [show_in_toc |-> Str(TxtDa)]),
       Shape("image_full", <<"V">>, None, [show_in_toc |-> Str(TxtNet)]),
       Shape("text_block", <<"W">>, None, [text_md |-> <<"w">>]) >>

\* the shapes of the first block of a list whose parent links vary
HintKinds ==
    << Shape("section_heading", <<"H">>, None, EmptyDict),
       Shape("section_heading", <<"H">>, None, [toc_level |-> Num(1)]),
       Shape("section_heading", <<"H">>, None, [toc_level |-> Str(<<" ","2">>)]),
       Shape("section_heading", <<"H">>, None, [toc_level |-> Num(3)]),
       Shape("section_heading", <<"H">>, None, [toc_level |-> Str(<<"x">>)]) >>

\* the shapes of its other blocks
LinkKinds ==
    << Shape("section_heading", <<"L">>, None, EmptyDict),
       Shape("text_block", <<"K">>, None, EmptyDict) >>

\* a bundle of a block list; `indexed` tells whether block_index was built
BundleOf(bs, indexed) ==
    [settings |-> Settings_from_dict(EmptyDict), sections |-> <<>>, blocks |-> bs,
     block_index |-> IF indexed THEN rebuild_index(bs) ELSE rebuild_index(<<>>)]

\* a list of n blocks of the shapes kinds[pick[i]], none with a parent
ShapedList(n, pick) == [i \in 1..n |-> ShapedBlock(i, ShapeKinds[pick[i]], None)]

\* the parents a block of a list of n blocks may name
ParentChoices(n) == {None, TxtDangling} \cup {IdAt(i) : i \in 1..n}

\* a list of n blocks whose first block has the shape HintKinds[h], the
\* others the shapes LinkKinds[pick[i]], with the parents `parent`
LinkedList(n, h, pick, parent) ==
    [i \in 1..n |-> ShapedBlock(i, IF i = 1 THEN HintKinds[h] ELSE LinkKinds[pick[i]], parent[i])]

\* a heading, k text blocks each the child of the block before it, and a
\* heading that is the child of the last of them
LongChain(k) ==
    [i \in 1..(k + 2) |->
        ShapedBlock(i, LinkKinds[IF i = 1 \/ i = k + 2 THEN 1 ELSE 2],
                    IF i = 1 THEN None ELSE IdAt(i - 1))]

TocInit ==
    /\ \/ \E n \in 0..MaxTocBlocks : \E pick \in [1..n -> 1..Len(ShapeKinds)] :
             mb = BundleOf(ShapedList(n, pick), TRUE)
       \/ \E n \in 1..MaxChainBlocks : \E h \in 1..Len(HintKinds) :
             \E pick \in [1..n -> 1..Len(LinkKinds)], parent \in [1..n -> ParentChoices(n)] :
                /\ pick[1] = 1
                /\ mb = BundleOf(LinkedList(n, h, pick, parent), TRUE)
       \/ \E parent \in [1..2 -> ParentChoices(2)] :
             mb = BundleOf(LinkedList(2, 1, <<1, 1>>, parent), FALSE)
       \/ \E k \in {ChainCap - 1, ChainCap} :
             mb = BundleOf(LongChain(k), TRUE)
    /\ data = mb.blocks
    /\ args = NoneObj
    /\ pc = "resolver"
    /\ catalog = NoneObj
    /\ gen_models = FALSE
    /\ blocks = mb.blocks
    /\ order = OrderStep * Len(mb.blocks)
    /\ si = 0 /\ ri = 0 /\ ii = 0
    /\ sec_block_id = None /\ ser_block_id = None
    /\ frags = <<>>
    /\ entries = <<>>
    /\ contexts = <<>>
    /\ html = NoneObj
    /\ page = NoPage
\* generate_toc as it would be if it consumed the blocks it has read
GenerateToc_consuming ==
    /\ pc = "resolver"
    /\ Len(entries) < MaxTocRuns
    /\ entries' = Append(entries, generate_toc(mb))
    /\ mb' = [mb EXCEPT !.blocks = <<>>]
    /\ UNCHANGED <<data, pc, catalog, gen_models, blocks, order, si, ri, ii,
                   sec_block_id, ser_block_id, args, frags, contexts, html, page>>

\* one call of generate_toc on the bundle
GenerateToc ==
    /\ pc = "resolver"
    /\ Len(entries) < MaxTocRuns
    /\ entries' = Append(entries, generate_toc(mb))
    /\ UNCHANGED <<data, pc, catalog, gen_models, blocks, order, si, ri, ii,
                   sec_block_id, ser_block_id, mb, args, frags, contexts, html, page>>

TocNext == GenerateToc

TocSpec == TocInit /\ [][TocNext]_vars

(***************************************************************************)
(* Reading a block list.                                                   *)
(***************************************************************************)
\* load_catalog has returned its bundle
Returned == mb # NoBundle

\* the elements of a finite set of numbers, ascending
RECURSIVE Ascending(_)
Ascending(S) ==
    IF S = {} THEN <<>>
    ELSE LET lo == CHOOSE x \in S : \A y \in S : x <= y
         IN  <<lo>> \o Ascending(S \ {lo})

IsHeading(b, level) == b.type = "section_heading" /\ b.params.toc_level = Num(level)

\* the positions in bs of the headings of a level, ascending
HeadingsAt(bs, level) == Ascending({i \in 1..Len(bs) : IsHeading(bs[i], level)})

\* the position of the first heading or back cover after position i
\* (past the end when there is none)
SpanEnd(bs, i) ==
    LET later == {j \in (i + 1)..Len(bs) : bs[j].type \in {"section_heading", "backcover"}}
    IN  IF later = {} THEN Len(bs) + 1 ELSE CHOOSE j \in later : \A k \in later : j <= k

\* the blocks after the heading at position i, up to the next heading
Span(bs, i) == SubSeq(bs, i + 1, SpanEnd(bs, i) - 1)

\* the Series of a catalog in source order
RECURSIVE FlatSeries(_)
FlatSeries(sections) ==
    IF sections = <<>> THEN <<>> ELSE Head(sections).series \o FlatSeries(Tail(sections))

\* the elements of seq that Keep holds of, in order
Filter(seq, Keep(_)) ==
    LET kept == Ascending({i \in 1..Len(seq) : Keep(seq[i])})
    IN  [k \in 1..Len(kept) |-> seq[kept[k]]]

HasPrefix(text, prefix) ==
    Len(text) >= Len(prefix) /\ SubSeq(text, 1, Len(prefix)) = prefix

\* the document asks for model pages
FlagEnabled ==
    Lower(Get(Get(data, "settings", EmptyDict), "generate_model_pages", TxtNo))
        \in {TxtYes, TxtTrue, TxtOne, TxtDa}

\* the document carries no model-page flag
FlagUnset == "generate_model_pages" \notin DOMAIN Get(data, "settings", EmptyDict)

HasSku(mdl) == Strip(mdl.sku) # <<>>

(***************************************************************************)
(* The claims.                                                             *)
(***************************************************************************)

\* C1: in the bundle load_catalog returns, the block at list position i has
\* order 10 * (i - 1) (0, 10, 20, ...: strictly increasing, unique, constant
\* step), and the final sort by order leaves the emission order unchanged.
C1_OrderKeys ==
    Returned =>
        /\ \A i \in 1..Len(mb.blocks) : mb.blocks[i].order = OrderStep * (i - 1)
        /\ mb.blocks = blocks

\* a bundle of a document with two Sections of two Series each
C1_Witness ==
    /\ Returned
    /\ Len(mb.sections) = 2
    /\ \A s \in 1..2 : Len(mb.sections[s].series) = 2
    /\ Len(mb.blocks) >= 9

\* C2: in the returned bundle every block with a parent_id has that id in
\* block_index, and the block it maps to has a strictly smaller order.
C2_ParentsPrecede ==
    Returned =>
        \A i \in 1..Len(mb.blocks) :
            LET b == mb.blocks[i] IN
            b.parent_id # None =>
                /\ b.parent_id \in DOMAIN mb.block_index
                /\ mb.block_index[b.parent_id].order < b.order

\* C3: in the returned bundle every block has a block_id of its own, so that
\* block_index has one entry per block and maps each block's id to that
\* block, whatever the random suffixes are.
C3_UniqueIds ==
    Returned =>
        /\ \A i, j \in 1..Len(mb.blocks) :
              i # j => mb.blocks[i].block_id # mb.blocks[j].block_id
        /\ Cardinality(DOMAIN mb.block_index) = Len(mb.blocks)
        /\ \A i \in 1..Len(mb.blocks) :
              mb.block_index[mb.blocks[i].block_id].order = mb.blocks[i].order

\* the SKUs of the spec_table blocks among bs, in order
SpecSkus(bs) ==
    LET specs == Filter(bs, LAMBDA b : b.type = "spec_table")
    IN  [i \in 1..Len(specs) |-> specs[i].sku_list]

\* the SKUs of the Models of a Series that have one, in order
ModelSkus(series) ==
    LET ms == Filter(series.models, HasSku)
    IN  [i \in 1..Len(ms) |-> Strip(ms[i].sku)]

\* C4: when the document enables model pages (generate_model_pages = yes),
\* the blocks of every Series hold one spec_table block per Model with a
\* non-blank SKU, in model order, each with page_break_before true and the
\* Series heading as parent.
C4_ModelPages ==
    (Returned /\ FlagEnabled) =>
        LET bs == mb.blocks
            l2 == HeadingsAt(bs, 2)
            flat == FlatSeries(mb.sections)
        IN  /\ Len(l2) = Len(flat)
            /\ \A q \in 1..Len(flat) :
                  /\ SpecSkus(Span(bs, l2[q])) = ModelSkus(flat[q])
                  /\ \A k \in 1..Len(Span(bs, l2[q])) :
                        LET b == Span(bs, l2[q])[k] IN
                        b.type = "spec_table" =>
                            b.page_break_before /\ b.parent_id = bs[l2[q]].block_id

\* C5: when the document carries no model-page flag, the returned block list
\* holds no spec_table block, however many Models have SKUs.
C5_NoModelPages ==
    (Returned /\ FlagUnset) =>
        \A i \in 1..Len(mb.blocks) : mb.blocks[i].type # "spec_table"

\* a flagless document with Models that have SKUs has been loaded
C5_Witness ==
    /\ Returned
    /\ FlagUnset
    /\ \E q \in 1..Len(FlatSeries(mb.sections)) :
          Len(ModelSkus(FlatSeries(mb.sections)[q])) >= 2

\* the driver is past its cover step
CoverStepDone == pc = "toc"

CoverBlocks(bs) == {i \in 1..Len(bs) : bs[i].type = "cover"}

\* C6 as claimed: with the cover disabled (no-cover toggle) the block list
\* of the run holds no block of type cover.
C6_NoCoverBlock ==
    (CoverStepDone /\ args.no_cover) => CoverBlocks(mb.blocks) = {}

\* C6 as amended: the block list holds exactly one cover block, the first
\* block, whether or not the cover is enabled; the no-cover toggle decides
\* only whether the driver emits the cover fragment.
C6_CoverFragmentOnly ==
    CoverStepDone =>
        /\ CoverBlocks(mb.blocks) = {1}
        /\ args.no_cover => frags = <<>>
        /\ ~args.no_cover => frags = <<"cover">>

\* a run with the no-cover toggle is past the cover step
C6_Witness == CoverStepDone /\ args.no_cover /\ Len(mb.sections) >= 1

\* the title load_catalog gives the heading of a Section
SectionTitle(section) == Or(section.title, Or(section.code, TxtRazdel))

\* C7: the returned block list has one toc and one backcover block, the
\* backcover last; between them one level-1 heading per Section in source
\* order, without parent; after each, before the next level-1 heading, one
\* level-2 heading per Series of that Section in source order whose parent is
\* the Section's heading; and every block that is neither cover, toc,
\* backcover nor heading has as parent the heading it follows, which is a
\* level-1 heading only for a Section's intro.
C7_Topology ==
    Returned =>
        LET bs == mb.blocks
            l1 == HeadingsAt(bs, 1)
            l2 == HeadingsAt(bs, 2)
            tocs == {i \in 1..Len(bs) : bs[i].type = "toc"}
            heads == {i \in 1..Len(bs) : bs[i].type = "section_heading"}
            section_end(k) == IF k < Len(l1) THEN l1[k + 1] ELSE Len(bs)
            series_of(k) == Filter(l2, LAMBDA i : l1[k] < i /\ i < section_end(k))
        IN  /\ Cardinality(tocs) = 1
            /\ {i \in 1..Len(bs) : bs[i].type = "backcover"} = {Len(bs)}
            /\ \A i \in 1..Len(bs) :
                  bs[i].type = "section_heading" => bs[i].params.toc_level \in {Num(1), Num(2)}
            /\ Len(l1) = Len(mb.sections)
            /\ Len(l2) = Len(FlatSeries(mb.sections))
            /\ \A k \in 1..Len(l1) :
                  LET found == series_of(k) IN
                  /\ \A t \in tocs : t < l1[k]
                  /\ bs[l1[k]].title = SectionTitle(mb.sections[k])
                  /\ bs[l1[k]].parent_id = None
                  /\ Len(found) = Len(mb.sections[k].series)
                  /\ \A j \in 1..Len(found) :
                        /\ bs[found[j]].title = ser_name(mb.sections[k].series[j])
                        /\ bs[found[j]].parent_id = bs[l1[k]].block_id
            /\ \A i \in 1..Len(bs) :
                  bs[i].type \notin {"cover", "toc", "backcover", "section_heading"} =>
                      LET hs == {h \in heads : h < i} IN
                      /\ hs # {}
                      /\ LET h == CHOOSE x \in hs : \A y \in hs : y <= x IN
                         /\ bs[i].parent_id = bs[h].block_id
                         /\ IsHeading(bs[h], 1) =>
                               (i = h + 1 /\ bs[i].type = "text_block"
                                /\ mb.sections[Len(Filter(l1, LAMBDA x : x <= h))].intro_md # <<>>)

\* a bundle with two Sections, one with an intro, two Series each, and tables
C7_Witness ==
    /\ Returned
    /\ Len(mb.sections) = 2
    /\ \A s \in 1..2 : Len(mb.sections[s].series) = 2
    /\ mb.sections[1].intro_md # <<>> /\ mb.sections[2].intro_md = <<>>
    /\ \E i \in 1..Len(mb.blocks) : HasPrefix(mb.blocks[i].block_id, <<"t","b","l","-">>)

\* the catalog of the round trip: 2 Sections x 2 Series x 1 non-empty Table
\* x 2 Models with SKUs, no hero, description or media
RoundTripCatalog ==
    /\ Len(mb.sections) = 2
    /\ \A s \in 1..2 :
          /\ Len(mb.sections[s].series) = 2
          /\ \A r \in 1..2 :
                LET x == mb.sections[s].series[r] IN
                /\ Len(x.tables) = 1 /\ TableHasContent(x.tables[1])
                /\ Len(x.models) = 2 /\ \A k \in 1..2 : HasSku(x.models[k])
                /\ Strip(x.hero.photo) = <<>> /\ md_parts(x) = <<>> /\ x.media = <<>>

\* C8: with model pages enabled the round-trip catalog yields 1 cover + 1 toc
\* + 2 Section headings (+ 1 intro per Section with intro text)
\* + 4 x (1 Series heading + 1 table text block + 2 spec_table) + 1 backcover.
C8_RoundTrip ==
    (Returned /\ FlagEnabled /\ RoundTripCatalog) =>
        Len(mb.blocks) =
            1 + 1 + 2 + Cardinality({s \in 1..2 : mb.sections[s].intro_md # <<>>})
            + 4 * (1 + 1 + 2) + 1

\* the dataset of a Media item holds at least one series
Populated(m) == m.dataset # NoneObj /\ Len(m.dataset.series) > 0

\* the types of the image and curve blocks C9 expects for a Series: the hero
\* image when the Series has one, then one block per Media item with a file
MediaTypesExpected(series) ==
    LET ms == Filter(series.media, LAMBDA m : Strip(Or(m.file, <<>>)) # <<>>)
    IN  (IF Strip(Or(series.hero.photo, <<>>)) # <<>> THEN <<"image_full">> ELSE <<>>)
        \o [i \in 1..Len(ms) |->
              IF ms[i].type = TxtCurve /\ Populated(ms[i]) THEN "curve" ELSE "image_full"]

\* the types of the image and curve blocks among the blocks of a Series
MediaTypesEmitted(span) ==
    LET ms == Filter(span, LAMBDA b : b.type \in {"curve", "image_full"})
    IN  [i \in 1..Len(ms) |-> ms[i].type]

\* C9: for the Media items of a Series with a non-blank file, in order, the
\* blocks of the Series hold one block each: a curve block for a curve item
\* with a populated dataset, an image_full block otherwise; an item with a
\* blank file has no block.
C9_MediaBlocks ==
    Returned =>
        LET bs == mb.blocks
            l2 == HeadingsAt(bs, 2)
            flat == FlatSeries(mb.sections)
        IN  /\ Len(l2) = Len(flat)
            /\ \A q \in 1..Len(flat) :
                  MediaTypesEmitted(Span(bs, l2[q])) = MediaTypesExpected(flat[q])

\* the per-table text blocks among the blocks of a Series
TableBlocks(span) ==
    Filter(span, LAMBDA b : b.type = "text_block" /\ HasPrefix(b.block_id, <<"t","b","l","-">>))

\* C10: every Series has its level-2 heading, and the number of per-table
\* text blocks among its blocks is the number of its Tables that have both
\* columns and rows; a Table without rows or without columns has no block.
C10_TableBlocks ==
    Returned =>
        LET bs == mb.blocks
            l2 == HeadingsAt(bs, 2)
            flat == FlatSeries(mb.sections)
        IN  /\ Len(l2) = Len(flat)
            /\ \A q \in 1..Len(flat) :
                  Len(TableBlocks(Span(bs, l2[q]))) =
                      Cardinality({t \in 1..Len(flat[q].tables) :
                                      /\ flat[q].tables[t].columns # <<>>
                                      /\ flat[q].tables[t].rows # <<>>})

\* a bundle of a Series that has Tables with and without rows and columns
C10_Witness ==
    /\ Returned
    /\ \E q \in 1..Len(FlatSeries(mb.sections)) :
          LET ts == FlatSeries(mb.sections)[q].tables IN
          /\ \E t \in 1..Len(ts) : ts[t].rows = <<>> /\ ts[t].columns # <<>>
          /\ \E t \in 1..Len(ts) : ts[t].columns = <<>> /\ ts[t].rows # <<>>
          /\ \E t \in 1..Len(ts) : ts[t].columns # <<>> /\ ts[t].rows # <<>>

(***************************************************************************)
(* Reading a table of contents.                                            *)
(***************************************************************************)
\* generate_toc has been called
TocDone == entries # <<>>

\* the largest element of a non-empty finite set of numbers, 0 for the empty set
Last(S) == IF S = {} THEN 0 ELSE CHOOSE x \in S : \A y \in S : y <= x

HeadingLevel(m, i) == _infer_section_level(m, m.blocks[i])

Excluded(b) == _want_in_toc(b) = "False"
OptedIn(b) == _want_in_toc(b) = "True"

\* the title the entry of a block would carry
EntryTitle(b) == IF b.type = "spec_table" THEN SpecTitle(b) ELSE TocTitle(b)

\* the block at position i is a section_heading of the level
HeadingOf(m, i, level) ==
    m.blocks[i].type = "section_heading" /\ HeadingLevel(m, i) = level

\* the block at position i is an opted-in block that is neither heading nor
\* spec_table, with a title
OtherEntry(m, i) ==
    /\ m.blocks[i].type \notin {"section_heading", "spec_table"}
    /\ OptedIn(m.blocks[i]) /\ ~Falsy(TocTitle(m.blocks[i]))

\* the block at position i makes a level-1 entry
Opens(m, i) ==
    \/ HeadingOf(m, i, 1) /\ ~Excluded(m.blocks[i]) /\ ~Falsy(TocTitle(m.blocks[i]))
    \/ OtherEntry(m, i) /\ OtherLevel(m.blocks[i]) = 1

\* the block at position i is a level-1 heading that makes no entry
Closes(m, i) ==
    HeadingOf(m, i, 1) /\ (Excluded(m.blocks[i]) \/ Falsy(TocTitle(m.blocks[i])))

\* the block at position i makes a level-2 entry
MakesChild(m, i) ==
    \/ HeadingOf(m, i, 2) /\ ~Excluded(m.blocks[i]) /\ ~Falsy(TocTitle(m.blocks[i]))
    \/ m.blocks[i].type = "spec_table" /\ OptedIn(m.blocks[i]) /\ ~Falsy(SpecTitle(m.blocks[i]))
    \/ OtherEntry(m, i) /\ OtherLevel(m.blocks[i]) # 1

\* the position of the block that opened the last level-1 node before
\* position i, 0 when none was opened
LastOpened(m, i) == Last({j \in 1..(i - 1) : Opens(m, j)})

\* the position of the block whose level-1 node is open at position i: the
\* last one opened, unless a level-1 heading without entry came after it
OpenAt(m, i) ==
    LET j == Last({k \in 1..(i - 1) : Opens(m, k) \/ Closes(m, k)})
    IN  IF j # 0 /\ Opens(m, j) THEN j ELSE 0

\* the level-2 entry of the block at position i is in the tree, under the
\* level-1 entry of the block at position j, or at the top when j = 0
Placed(tree, m, i, j) ==
    LET child == ChildEntry(EntryTitle(m.blocks[i]), m.blocks[i]) IN
    IF j = 0
    THEN \E e \in 1..Len(tree) : tree[e] = child
    ELSE \E e \in 1..Len(tree) :
            /\ tree[e].level = 1
            /\ tree[e].anchor = TxtSecDash \o m.blocks[j].block_id
            /\ \E c \in 1..Len(tree[e].children) : tree[e].children[c] = child

\* the tree that has a top entry for every block that opens a node or makes
\* a level-2 entry while no node is open, in block order, each node with the
\* level-2 entries made while it was open, in block order
ExpectedTree(m) ==
    LET tops == Ascending({i \in 1..Len(m.blocks) :
                    Opens(m, i) \/ (MakesChild(m, i) /\ OpenAt(m, i) = 0)})
        under(j) == Ascending({i \in 1..Len(m.blocks) : MakesChild(m, i) /\ OpenAt(m, i) = j})
        child(i) == ChildEntry(EntryTitle(m.blocks[i]), m.blocks[i])
    IN  [t \in 1..Len(tops) |->
            IF Opens(m, tops[t])
            THEN [level |-> 1, title |-> TocTitle(m.blocks[tops[t]]),
                  anchor |-> TxtSecDash \o m.blocks[tops[t]].block_id,
                  children |-> [c \in 1..Len(under(tops[t])) |-> child(under(tops[t])[c])]]
            ELSE child(tops[t])]

\* C11 as claimed: every level-2 section_heading that is not explicitly
\* excluded has its entry in the tree, as a child of the level-1 node opened
\* last before it, or at the top when no level-1 node was opened before it.
C11_NeverDropped ==
    \A r \in 1..Len(entries) : \A i \in 1..Len(mb.blocks) :
        (HeadingOf(mb, i, 2) /\ ~Excluded(mb.blocks[i])) =>
            Placed(entries[r], mb, i, LastOpened(mb, i))

\* C11 as amended: a level-1 entry opens a node with no children; a level-2
\* entry is made for every level-2 section_heading that is not excluded and
\* has a title; it is attached to the node that is open, or put at the top
\* when none is: a node stays open until the next level-1 heading, also one
\* that is excluded or has no title and so opens no node of its own.
C11_TocNesting ==
    \A r \in 1..Len(entries) :
        /\ entries[r] = ExpectedTree(mb)
        /\ \A i \in 1..Len(mb.blocks) :
              (HeadingOf(mb, i, 2) /\ ~Excluded(mb.blocks[i]) /\ ~Falsy(TocTitle(mb.blocks[i]))) =>
                  Placed(entries[r], mb, i, OpenAt(mb, i))

\* a tree made of a list in which a level-2 heading with an entry comes
\* after a node was opened and closed again
C11_Witness ==
    /\ TocDone
    /\ \E e \in 1..Len(entries[1]) : entries[1][e].level = 1
    /\ \E i \in 1..Len(mb.blocks) :
          /\ HeadingOf(mb, i, 2) /\ MakesChild(mb, i)
          /\ LastOpened(mb, i) # 0 /\ OpenAt(mb, i) = 0

\* the scalar v is one of the scalars of a list
Among(v, scalars) == \E k \in 1..Len(scalars) : scalars[k].t = v.t /\ scalars[k].v = v.v

\* the hint of a block is an explicit level 1 or 2
Hinted(b) == "toc_level" \in DOMAIN b.params /\ Among(b.params.toc_level, <<Num(1), Num(2)>>)

\* C12: for a section_heading whose params carry toc_level 1 or 2,
\* _infer_section_level returns that level, whatever its parent chain is (no
\* parent, heading parents, a cycle, a parent_id that the index lacks).
C12_ExplicitLevel ==
    TocDone =>
        \A i \in 1..Len(mb.blocks) :
            (mb.blocks[i].type = "section_heading" /\ Hinted(mb.blocks[i])) =>
                _infer_section_level(mb, mb.blocks[i]) = mb.blocks[i].params.toc_level.v

\* a heading with hint 1 that lies on a cycle of headings, and so has
\* section_heading ancestors
C12_Witness ==
    /\ TocDone
    /\ \E i \in 1..Len(mb.blocks) :
          /\ mb.blocks[i].type = "section_heading"
          /\ Hinted(mb.blocks[i]) /\ mb.blocks[i].params.toc_level.v = 1
          /\ mb.blocks[i].parent_id \notin {None, TxtDangling, mb.blocks[i].block_id}
          /\ \E k \in 1..Len(_parents_chain(mb, mb.blocks[i])) :
                _parents_chain(mb, mb.blocks[i])[k].block_id = mb.blocks[i].block_id

\* the ids of the index that `steps` parent links lead to from the ids `from`
RECURSIVE LinkedWithin(_, _, _, _)
LinkedWithin(idx, from, found, steps) ==
    LET next == {idx[x].parent_id : x \in from} \cap DOMAIN idx IN
    IF steps = 0 \/ next \subseteq found THEN found
    ELSE LinkedWithin(idx, next \ found, found \cup next, steps - 1)

\* the ancestors of b that at most `steps` parent links lead to
AncestorsWithin(m, b, steps) ==
    LET idx == ChainIndex(m)
        first == {b.parent_id} \cap DOMAIN idx
    IN  IF steps = 0 THEN {} ELSE LinkedWithin(idx, first, first, steps - 1)

\* the level by ancestors: 2 with a section_heading among them, else 1
LevelBy(m, ancestors) ==
    IF \E id \in ancestors : ChainIndex(m)[id].type = "section_heading" THEN 2 ELSE 1

\* the hint of a block is no explicit level 1 or 2
Unhinted(b) ==
    "toc_level" \in DOMAIN b.params =>
        ~Among(b.params.toc_level,
               <<Num(1), Num(2), Str(<<"1">>), Str(<<"2">>), Str(<<" ","2">>), Bool(TRUE)>>)

\* C13 as claimed: for a section_heading without explicit level 1 or 2 the
\* level is 1 when no ancestor that parent_id links lead to in the index is a
\* section_heading, and 2 when one or more are, however many links away.
C13_LevelByAncestors ==
    TocDone =>
        \A i \in 1..Len(mb.blocks) :
            (mb.blocks[i].type = "section_heading" /\ Unhinted(mb.blocks[i])) =>
                _infer_section_level(mb, mb.blocks[i])
                    = LevelBy(mb, AncestorsWithin(mb, mb.blocks[i], Len(mb.blocks)))

\* C13 as amended: the ancestors that count are those at most 100 parent
\* links away; the level is 1 when none of them is a section_heading and 2
\* when one or more are, also with other blocks between.
C13_LevelByNearAncestors ==
    TocDone =>
        \A i \in 1..Len(mb.blocks) :
            (mb.blocks[i].type = "section_heading" /\ Unhinted(mb.blocks[i])) =>
                _infer_section_level(mb, mb.blocks[i])
                    = LevelBy(mb, AncestorsWithin(mb, mb.blocks[i], 100))

\* a heading without hint whose parent is no heading and whose level is 2,
\* in a list of less than 100 blocks
C13_Witness ==
    /\ TocDone
    /\ Len(mb.blocks) < 100
    /\ \E i \in 1..Len(mb.blocks) :
          /\ mb.blocks[i].type = "section_heading" /\ Unhinted(mb.blocks[i])
          /\ mb.blocks[i].parent_id \in DOMAIN mb.block_index
          /\ mb.block_index[mb.blocks[i].parent_id].type # "section_heading"
          /\ _infer_section_level(mb, mb.blocks[i]) = 2

\* the block at position i lies on a cycle of parent links
OnCycle(m, i) == m.blocks[i].block_id \in AncestorsWithin(m, m.blocks[i], Len(m.blocks))

\* C14: the parent-chain walk ends for every block of every block list, also
\* on a cycle or a self-loop of parent_id links: it makes at most 100
\* iterations and finds at most 100 ancestors, and the level inferred from
\* them is 1 or 2.
C14_WalkEnds ==
    TocDone =>
        \A i \in 1..Len(mb.blocks) :
            /\ ChainGuard(mb, mb.blocks[i]) <= 100
            /\ Len(_parents_chain(mb, mb.blocks[i])) <= 100
            /\ OnCycle(mb, i) => ChainGuard(mb, mb.blocks[i]) = 100
            /\ _infer_section_level(mb, mb.blocks[i]) \in {1, 2}
            /\ _infer_section_level_by_hierarchy(mb, mb.blocks[i]) \in {1, 2}

\* a list with a self-loop and a list with a longer cycle, both walked
C14_Witness ==
    /\ TocDone
    /\ \E i \in 1..Len(mb.blocks) :
          /\ OnCycle(mb, i)
          /\ mb.blocks[i].parent_id # mb.blocks[i].block_id
          /\ mb.blocks[i].type = "section_heading" /\ Unhinted(mb.blocks[i])

\* the anchors of the entries of a tree, children included
Anchors(tree) ==
    {tree[e].anchor : e \in 1..Len(tree)}
    \cup UNION {{tree[e].children[c].anchor : c \in 1..Len(tree[e].children)} :
                   e \in {x \in 1..Len(tree) : tree[x].level = 1}}

HasEntry(tree, b) == (TxtSecDash \o b.block_id) \in Anchors(tree)

\* the values of show_in_toc that opt a block in, as the blocks carry them
OptInValues == <<Bool(TRUE), Num(1), Str(TxtYes), Str(<<" ","Y","e","s">>), Str(TxtDa), Str(TxtTrue)>>

\* the values of show_in_toc that exclude a block, as the blocks carry them
OptOutValues == <<Bool(FALSE), Num(0), Str(TxtNo), Str(TxtNet), Str(TxtFalse)>>

\* C15: a spec_table block has an entry only when its params opt it in
\* (show_in_toc true); without the param, or with a false or unrecognised
\* value, it has none.
C15_SpecTableOptIn ==
    \A r \in 1..Len(entries) : \A i \in 1..Len(mb.blocks) :
        (mb.blocks[i].type = "spec_table" /\ HasEntry(entries[r], mb.blocks[i])) =>
            /\ "show_in_toc" \in DOMAIN mb.blocks[i].params
            /\ Among(mb.blocks[i].params.show_in_toc, OptInValues)

\* a tree of a list with spec_table blocks with and without entry
C15_Witness ==
    /\ TocDone
    /\ \E i, j, k \in 1..Len(mb.blocks) :
          /\ mb.blocks[i].type = "spec_table" /\ HasEntry(entries[1], mb.blocks[i])
          /\ mb.blocks[j].type = "spec_table" /\ "show_in_toc" \notin DOMAIN mb.blocks[j].params
          /\ mb.blocks[k].type = "spec_table" /\ "show_in_toc" \in DOMAIN mb.blocks[k].params
          /\ ~HasEntry(entries[1], mb.blocks[k])

\* C16: a block of any type whose params carry show_in_toc no, false or 0
\* has no entry, a section_heading included.
C16_ExplicitExclusion ==
    \A r \in 1..Len(entries) : \A i \in 1..Len(mb.blocks) :
        ("show_in_toc" \in DOMAIN mb.blocks[i].params
         /\ Among(mb.blocks[i].params.show_in_toc, OptOutValues)) =>
            ~HasEntry(entries[r], mb.blocks[i])

\* a tree of a list with an excluded heading, an excluded spec_table and an
\* excluded image
C16_Witness ==
    /\ TocDone
    /\ \A type \in {"section_heading", "spec_table", "image_full"} :
          \E i \in 1..Len(mb.blocks) :
             /\ mb.blocks[i].type = type
             /\ "show_in_toc" \in DOMAIN mb.blocks[i].params
             /\ Among(mb.blocks[i].params.show_in_toc, OptOutValues)

Unhint(b) ==
    IF b.type = "section_heading"
    THEN [b EXCEPT !.params = [k \in DOMAIN b.params \ {"toc_level"} |-> b.params[k]]]
    ELSE b

\* the bundle with params.toc_level removed from all its section_heading
\* blocks (block_index holds the blocks themselves, so it shows them changed)
StripHints(model) ==
    [model EXCEPT !.blocks = [i \in 1..Len(model.blocks) |-> Unhint(model.blocks[i])],
                  !.block_index = [id \in DOMAIN model.block_index |-> Unhint(model.block_index[id])]]

\* C18: for every bundle load_catalog returns, the tree built from the
\* bundle with params.toc_level removed from all section_heading blocks is
\* the tree main builds from the bundle itself.
C18_HintsRedundant ==
    TocDone => generate_toc(StripHints(mb)) = entries[1]

\* main has built the tree of a bundle whose section and series headings all
\* carry hints, and the tree has a series entry nested in a section entry
C18_Witness ==
    /\ Returned /\ TocDone
    /\ \E i, j \in 1..Len(mb.blocks) :
          /\ IsHeading(mb.blocks[i], 1) /\ IsHeading(mb.blocks[j], 2)
          /\ mb.blocks[j].parent_id = mb.blocks[i].block_id
    /\ \E k \in 1..Len(entries[1]) :
          /\ entries[1][k].level = 1
          /\ "children" \in DOMAIN entries[1][k]
          /\ \E c \in 1..Len(entries[1][k].children) : entries[1][k].children[c].level = 2
    /\ generate_toc(StripHints(mb)) = entries[1]

\* the Models of the source document whose price float() rejects, as
\* <<Section, Series, Model>> positions
MalformedPrices(doc) ==
    LET secs == Get(doc, "sections", <<>>)
        sers(i) == Get(secs[i], "series", <<>>)
        mdls(i, j) == Get(sers(i)[j], "models", <<>>)
    IN  UNION {UNION {{<<i, j, k>> : k \in {m \in DOMAIN mdls(i, j) : ~Model_ok(mdls(i, j)[m])}}
                      : j \in DOMAIN sers(i)}
               : i \in DOMAIN secs}

\* C19: once load_catalog is past parsing a document with a malformed price
\* it has not failed, and the Model of that price is loaded with price None.
C19_PriceNulled ==
    (pc # "load" /\ MalformedPrices(data) # {}) =>
        /\ pc # "error"
        /\ \A p \in MalformedPrices(data) :
              catalog.sections[p[1]].series[p[2]].models[p[3]].price = NoneObj

\* a well-formed point of a source document: a pair of numeric coordinates
WellFormed(p) == p.t = "list" /\ Len(p.v) = 2 /\ FloatOk(p.v[1]) /\ FloatOk(p.v[2])

\* the well-formed points of a source list, in source order, as numeric pairs
WellFormedPoints(raw) ==
    LET kept == Filter(raw, WellFormed)
    IN  [k \in 1..Len(kept) |-> <<Float(kept[k].v[1]), Float(kept[k].v[2])>>]

\* the curve series of the source document, as <<Section, Series, Media item,
\* curve series>> positions
CurveSeriesOf(doc) ==
    LET secs == Get(doc, "sections", <<>>)
        sers(i) == Get(secs[i], "series", <<>>)
        meds(i, j) == Get(sers(i)[j], "media", <<>>)
        curves(i, j, k) ==
            IF MediaItem_mtype(meds(i, j)[k]) = TxtCurve /\ "dataset" \in DOMAIN meds(i, j)[k]
            THEN Get(meds(i, j)[k].dataset, "series", <<>>)
            ELSE <<>>
    IN  UNION {UNION {UNION {{<<i, j, k, l>> : l \in DOMAIN curves(i, j, k)}
                             : k \in DOMAIN meds(i, j)}
                      : j \in DOMAIN sers(i)}
               : i \in DOMAIN secs}

\* C20: the points loaded for a curve series are exactly the well-formed
\* points of its source list, in source order, as numeric pairs.
C20_PointsFiltered ==
    (pc # "load" /\ pc # "error") =>
        \A p \in CurveSeriesOf(data) :
            catalog.sections[p[1]].series[p[2]].media[p[3]].dataset.series[p[4]].points
                = WellFormedPoints(data.sections[p[1]].series[p[2]].media[p[3]].dataset.series[p[4]].points)

\* the Media items of the source document, as <<Section, Series, Media item>>
\* positions
MediaOf(doc) ==
    LET secs == Get(doc, "sections", <<>>)
        sers(i) == Get(secs[i], "series", <<>>)
        meds(i, j) == Get(sers(i)[j], "media", <<>>)
    IN  UNION {UNION {{<<i, j, k>> : k \in DOMAIN meds(i, j)} : j \in DOMAIN sers(i)}
               : i \in DOMAIN secs}

SourceMedia(doc, p) == doc.sections[p[1]].series[p[2]].media[p[3]]

\* the Media items whose type is a text that is no member of MediaType
UnknownTypes(doc) ==
    {p \in MediaOf(doc) :
        /\ "type" \in DOMAIN SourceMedia(doc, p)
        /\ SourceMedia(doc, p).type \notin MediaType \cup {<<>>, None}}

\* C21: a Media item with an unknown type makes the load fail, with no
\* bundle and no stage run; without one, a Media item with no type is loaded
\* as a photo.
C21_UnknownTypeFatal ==
    pc # "load" =>
        IF UnknownTypes(data) # {}
        THEN pc = "error" /\ mb = NoBundle /\ frags = <<>>
        ELSE pc # "error" =>
                \A p \in MediaOf(data) :
                    "type" \notin DOMAIN SourceMedia(data, p) =>
                        catalog.sections[p[1]].series[p[2]].media[p[3]].type = TxtPhoto

\* the load of a document with a Media item of an unknown type has failed
C21_Witness ==
    /\ pc = "error"
    /\ UnknownTypes(data) # {}
    /\ \E p \in MediaOf(data) : SourceMedia(data, p).type \in MediaType


(***************************************************************************)
(* cli.py, stages/section_cover.py, stages/series_detail.py,               *)
(* stages/products.py, stages/spec_table.py: the stages after the table    *)
(* of contents, each as the context it hands to its template.              *)
(***************************************************************************)
\* ModelProxy(base_model, sections_subset): .sections is the subset, every
\* other attribute (settings, blocks, block_index) is the base model's
ModelProxy(base_model, sections_subset) == [base_model EXCEPT !.sections = sections_subset]

\* SectionProxy(base_section, series_subset)
SectionProxy(base_section, series_subset) == [base_section EXCEPT !.series = series_subset]

\* int(params.get("toc_level")), None (here 0) when that raises
lvl(b) ==
    IF "toc_level" \in DOMAIN b.params /\ IntOk(b.params.toc_level) THEN IntOf(b.params.toc_level) ELSE 0

_is_l1_section(b) == b.type = "section_heading" /\ lvl(b) = 1

_is_series_heading(b) == b.type = "section_heading" /\ lvl(b) = 2

\* part in text
Contains(text, part) ==
    \E i \in 0..(Len(text) - Len(part)) : SubSeq(text, i + 1, i + Len(part)) = part

\* _find_section_for_block: the first Section whose title or code is the
\* block's title, else the first whose code the title contains, else None
_find_section_for_block(model, b) ==
    LET title_key == Lower(Strip(Or(b.title, <<>>)))
        exact == {i \in 1..Len(model.sections) :
                     \/ Lower(Strip(model.sections[i].title)) = title_key
                     \/ Lower(Strip(model.sections[i].code)) = title_key}
        loose == {i \in 1..Len(model.sections) :
                     /\ model.sections[i].code # <<>>
                     /\ Contains(title_key, Lower(Strip(model.sections[i].code)))}
    IN  IF exact # {} THEN model.sections[Ascending(exact)[1]]
        ELSE IF loose # {} THEN model.sections[Ascending(loose)[1]]
        ELSE NoneObj

\* one element of covers: the cover of the level-1 heading b
SectionCover(model, b) ==
    LET found == _find_section_for_block(model, b)
        section == IF found = NoneObj THEN [code |-> <<>>, title |-> Or(b.title, TxtRazdel), intro_md |-> <<>>]
                   ELSE found
    IN  [anchor |-> TxtSecDash \o b.block_id,
         title  |-> Or(section.title, Or(b.title, TxtRazdel))]

\* render_section_covers: a cover for every level-1 heading of model.blocks
render_section_covers(model) ==
    LET heads == Filter(model.blocks, _is_l1_section)
    IN  [template |-> "section_cover",
         covers   |-> [k \in 1..Len(heads) |-> SectionCover(model, heads[k])]]

\* _series_block_id: the id of the first level-2 heading with that title
_series_block_id(model, series_name) ==
    LET same(b) == _is_series_heading(b) /\ Strip(Or(b.title, <<>>)) = Strip(Or(series_name, <<>>))
        hits == Filter(model.blocks, same)
    IN  IF hits = <<>> THEN None ELSE hits[1].block_id

TxtP1 == <<"-","p","1">>
TxtP2 == <<"-","p","2">>

\* render_series_detail: two pages for every Series of model.sections; the
\* uuid fallback for a Series without a heading draws the number u
render_series_detail(model, u) ==
    LET sers == FlatSeries(model.sections)
        item(series) ==
            LET title == Or(series.name, Or(series.code, TxtSeriya))
                sbid  == Or(_series_block_id(model, title), Hex(u, 8))
            IN  [anchor_p1 |-> TxtSecDash \o sbid \o TxtP1,
                 anchor_p2 |-> TxtSecDash \o sbid \o TxtP2,
                 title     |-> title]
    IN  [template |-> "series_detail",
         items    |-> [k \in 1..Len(sers) |-> item(sers[k])]]

TxtSeriesDash == <<"s","e","r","i","e","s","-">>

\* _find_series_block_anchor: the anchor of the first level-2 heading with
\* that title, else one made of the title
_find_series_block_anchor(model, series_title, u) ==
    LET same(b) == _is_series_heading(b) /\ Strip(Or(b.title, <<>>)) = Strip(Or(series_title, <<>>))
        hits == Filter(model.blocks, same)
    IN  IF hits = <<>> THEN TxtSecDash \o _slug(TxtSeriesDash \o Or(series_title, <<>>), u)
        ELSE TxtSecDash \o hits[1].block_id

\* the series groups of one Section in generate_products: the Series with
\* a name or a code and at least one table
RECURSIVE SeriesGroups(_, _, _, _)
SeriesGroups(model, section, k, u) ==
    IF k > Len(section.series) THEN <<>>
    ELSE LET series == section.series[k]
             series_title == Strip(Or(series.name, Or(series.code, <<>>)))
             rest == SeriesGroups(model, section, k + 1, u)
         IN  IF series_title = <<>> \/ series.tables = <<>> THEN rest
             ELSE << [title    |-> Or(series.name, Or(series.code, TxtSeriya)),
                      code     |-> series.code,
                      subtitle |-> Strip(section.title),
                      anchor   |-> _find_series_block_anchor(model, series_title, u),
                      tables   |-> Len(series.tables)] >> \o rest

RECURSIVE ProductGroups(_, _, _)
ProductGroups(model, k, u) ==
    IF k > Len(model.sections) THEN <<>>
    ELSE SeriesGroups(model, model.sections[k], 1, u) \o ProductGroups(model, k + 1, u)

\* generate_products: the series groups of model.sections
generate_products(model, u) ==
    [template |-> "products", series_groups |-> ProductGroups(model, 1, u)]


\* the rows of one attribute group: the header row when group headers are
\* on and the group has a name, then a row for every item
GroupRows(g, group_headers) ==
    LET gname == Strip(Or(g.group, <<>>))
        items == OrList(g.items)
    IN  (IF group_headers /\ gname # <<>> THEN << [_is_group |-> TRUE, group |-> gname] >> ELSE <<>>)
        \o [k \in 1..Len(items) |->
              [_is_group |-> FALSE,
               attr_name |-> Strip(Or(items[k].name, <<>>)),
               value     |-> items[k].value,
               unit      |-> Or(items[k].unit, <<>>)]]

\* _build_rows_from_groups: the flat row list of the attribute groups
RECURSIVE _build_rows_from_groups(_, _)
_build_rows_from_groups(groups, group_headers) ==
    IF groups = <<>> THEN <<>>
    ELSE GroupRows(Head(groups), group_headers) \o _build_rows_from_groups(Tail(groups), group_headers)

\* bool(_get_param(b, settings, "group_headers", True)): the block's own
\* value (a boolean in every block load_catalog builds); without one, the
\* setting when it is a non-empty text, else the default, both true
group_headers_of(b, settings) ==
    IF "group_headers" \in DOMAIN b.params THEN b.params.group_headers ELSE TRUE

\* generate_spec_table_for_block: the context of one spec_table block
generate_spec_table_for_block(model, b) ==
    [template |-> "spec_table",
     title    |-> Or(b.title, <<>>),
     anchor   |-> TxtSecDash \o b.block_id,
     rows     |-> _build_rows_from_groups(IF "attributes" \in DOMAIN b.params THEN OrList(b.params.attributes) ELSE <<>>,
                                          group_headers_of(b, model.settings))]

IsSpecTable(b) == b.type = "spec_table"

\* render_all_spec_tables: a context for every spec_table of model.blocks
render_all_spec_tables(model) ==
    LET tables == Filter(model.blocks, IsSpecTable)
    IN  [k \in 1..Len(tables) |-> generate_spec_table_for_block(model, tables[k])]

(***************************************************************************)
(* cli.py: the driver after the table of contents.                         *)
(***************************************************************************)
\* the `for series` loop of the current Section has run through
SeriesLoopDone == IF si = 0 THEN TRUE ELSE ri = Len(mb.sections[si].series)

\* main, lines 104-106: the next Section; its cover fragment
MainSectionCover ==
    /\ pc = "sections"
    /\ SeriesLoopDone
    /\ si < Len(mb.sections)
    /\ si' = si + 1
    /\ ri' = 0
    /\ frags' = Append(frags, "section_cover")
    /\ contexts' = Append(contexts, render_section_covers(ModelProxy(mb, << mb.sections[si + 1] >>)))
    /\ UNCHANGED <<data, pc, catalog, gen_models, blocks, order, ii,
                   sec_block_id, ser_block_id, mb, args, entries, html, page>>

\* a driver that renders the products of a Series before its detail pages
MainSeries_products_first ==
    /\ pc = "sections"
    /\ si >= 1
    /\ ri < Len(mb.sections[si].series)
    /\ \E u \in {0, 1} :
         LET section == mb.sections[si]
             one_series_model == ModelProxy(mb, << SectionProxy(section, << section.series[ri + 1] >>) >>)
             spec_frags == render_all_spec_tables(one_series_model)
         IN  /\ frags' = frags \o <<"products", "series_detail">> \o [k \in 1..Len(spec_frags) |-> "spec_table"]
             /\ contexts' = contexts \o << generate_products(one_series_model, u),
                                           render_series_detail(one_series_model, u) >> \o spec_frags
    /\ ri' = ri + 1
    /\ UNCHANGED <<data, pc, catalog, gen_models, blocks, order, si, ii,
                   sec_block_id, ser_block_id, mb, args, entries, html, page>>

\* main, lines 109-124: the next Series of the Section; its detail pages,
\* its products and the spec tables
MainSeries ==
    /\ pc = "sections"
    /\ si >= 1
    /\ ri < Len(mb.sections[si].series)
    /\ \E u \in {0, 1} :
         LET section == mb.sections[si]
             one_series_model == ModelProxy(mb, << SectionProxy(section, << section.series[ri + 1] >>) >>)
             spec_frags == render_all_spec_tables(one_series_model)
         IN  /\ frags' = frags \o <<"series_detail", "products">> \o [k \in 1..Len(spec_frags) |-> "spec_table"]
             /\ contexts' = contexts \o << render_series_detail(one_series_model, u),
                                           generate_products(one_series_model, u) >> \o spec_frags
    /\ ri' = ri + 1
    /\ UNCHANGED <<data, pc, catalog, gen_models, blocks, order, si, ii,
                   sec_block_id, ser_block_id, mb, args, entries, html, page>>

\* a driver that emits the back cover fragment whatever the toggle
MainBackcover_always ==
    /\ pc = "sections"
    /\ SeriesLoopDone
    /\ si = Len(mb.sections)
    /\ frags' = Append(frags, "backcover")
    /\ pc' = "assemble"
    /\ UNCHANGED <<data, catalog, gen_models, blocks, order, si, ri, ii,
                   sec_block_id, ser_block_id, mb, args, entries, contexts, html, page>>

\* main, lines 126-128: the loops are over; the back cover fragment
MainBackcover ==
    /\ pc = "sections"
    /\ SeriesLoopDone
    /\ si = Len(mb.sections)
    /\ frags' = IF ~args.no_cover THEN Append(frags, "backcover") ELSE frags
    /\ pc' = "assemble"
    /\ UNCHANGED <<data, catalog, gen_models, blocks, order, si, ri, ii,
                   sec_block_id, ser_block_id, mb, args, entries, contexts, html, page>>

\* assemble_document: the base template rendered with the fragments and
\* the settings
assemble_document(fragments, settings) == [fragments |-> fragments, settings |-> settings]

\* main, lines 130-133: the document
MainAssemble ==
    /\ pc = "assemble"
    /\ html' = assemble_document(frags, mb.settings)
    /\ pc' = "export"
    /\ UNCHANGED <<data, catalog, gen_models, blocks, order, si, ri, ii,
                   sec_block_id, ser_block_id, mb, args, frags, entries, contexts, page>>

\* main, lines 135-142: the PDF, by the default engine; the page has been
\* printed and the browser closed when html_to_pdf_chromium returns
MainExport ==
    /\ pc = "export"
    /\ page' = [open |-> FALSE, printed |-> TRUE]
    /\ pc' = "done"
    /\ UNCHANGED <<data, catalog, gen_models, blocks, order, si, ri, ii,
                   sec_block_id, ser_block_id, mb, args, frags, entries, contexts, html>>

DriverNext ==
    \/ Load
    \/ SectionHeading
    \/ SectionIntro
    \/ SeriesHeading
    \/ SeriesHero
    \/ SeriesDescription
    \/ SeriesTable
    \/ SeriesMedia
    \/ SeriesModels
    \/ Backcover
    \/ MainSettings
    \/ MainCover
    \/ MainToc
    \/ MainSectionCover
    \/ MainSeries
    \/ MainBackcover
    \/ MainAssemble
    \/ MainExport

\* a whole run of main
DriverSpec == Init /\ [][DriverNext]_vars


(***************************************************************************)
(* Reading a run of the driver.                                            *)
(***************************************************************************)
\* the fragment kinds of n Series: detail pages, then products, for each
RECURSIVE SeriesKinds(_)
SeriesKinds(n) == IF n = 0 THEN <<>> ELSE <<"series_detail", "products">> \o SeriesKinds(n - 1)

\* the fragment kinds of Sections: the cover, then the Series, for each
RECURSIVE SectionKinds(_)
SectionKinds(sections) ==
    IF sections = <<>> THEN <<>>
    ELSE <<"section_cover">> \o SeriesKinds(Len(Head(sections).series)) \o SectionKinds(Tail(sections))

\* the fragment kinds of a whole run in the order the pipeline is said to
\* produce them, spec tables left out
PipelineKinds ==
    (IF args.no_cover THEN <<>> ELSE <<"cover">>) \o <<"toc">> \o SectionKinds(catalog.sections)
    \o (IF args.no_cover THEN <<>> ELSE <<"backcover">>)

IsPrefix(s, t) == Len(s) <= Len(t) /\ SubSeq(t, 1, Len(s)) = s

NotSpecTable(kind) == kind # "spec_table"

\* the titles of the detail pages rendered so far, in rendering order
DetailTitles ==
    LET IsDetail(c) == c.template = "series_detail"
        details == Filter(contexts, IsDetail)
    IN  [k \in 1..Len(details) |-> details[k].items[1].title]

\* a stage has rendered
Rendering == frags # <<>> \/ contexts # <<>> \/ html # NoneObj

\* C23: the pipeline runs in one fixed sequence. The fragments are produced
\* in the order cover, table of contents, then for every Section in source
\* order its cover and for every Series of it in source order detail pages,
\* products and spec tables, then the back cover; the document is assembled
\* from all of them and only then exported. The bundle is complete before
\* the first stage renders, Settings is changed only before that, and the
\* block list and the index are never changed after loading.
C23_FixedSequence ==
    /\ [](/\ args # NoneObj => IsPrefix(Filter(frags, NotSpecTable), PipelineKinds)
          /\ \A k \in 2..Len(frags) : frags[k] = "spec_table" => frags[k - 1] \in {"products", "spec_table"}
          /\ pc \in {"assemble", "export", "done"} => Filter(frags, NotSpecTable) = PipelineKinds
          /\ catalog # NoneObj => IsPrefix(DetailTitles, [k \in 1..Len(FlatSeries(catalog.sections)) |-> ser_name(FlatSeries(catalog.sections)[k])])
          /\ Rendering => pc \in {"toc", "sections", "assemble", "export", "done"}
          /\ html # NoneObj => pc \in {"export", "done"} /\ html.fragments = frags /\ html.settings = mb.settings
          /\ page # NoPage => pc = "done" /\ html # NoneObj)
    /\ [][/\ mb = NoBundle => ~Rendering /\ ~Rendering'
          /\ (Rendering \/ Rendering') => mb'.settings = mb.settings
          /\ mb # NoBundle => mb'.blocks = mb.blocks /\ mb'.block_index = mb.block_index /\ mb'.sections = mb.sections
          /\ mb # NoBundle => blocks' = blocks]_vars

C23_Witness ==
    /\ pc = "done"
    /\ ~args.no_cover
    /\ Len(catalog.sections) = 2
    /\ \A i \in 1..2 : Len(catalog.sections[i].series) = 2
    /\ page.printed


\* the contexts of the section-cover fragments rendered so far
CoverContexts ==
    LET IsCover(c) == c.template = "section_cover"
    IN  Filter(contexts, IsCover)

\* the anchors of all covers rendered so far, in document order
RECURSIVE CoverAnchors(_)
CoverAnchors(cs) ==
    IF cs = <<>> THEN <<>>
    ELSE [k \in 1..Len(Head(cs).covers) |-> Head(cs).covers[k].anchor] \o CoverAnchors(Tail(cs))

\* C25: the section-cover fragment rendered for a Section holds the cover
\* of that Section only, anchored at its level-1 heading; a finished run
\* has rendered as many covers as the catalog has Sections, each anchor once.
C25_OwnCoverOnly ==
    /\ \A k \in 1..Len(CoverContexts) :
          /\ Len(CoverContexts[k].covers) = 1
          /\ CoverContexts[k].covers[1].anchor = TxtSecDash \o mb.blocks[HeadingsAt(mb.blocks, 1)[k]].block_id
    /\ pc = "done" =>
          /\ Len(CoverAnchors(CoverContexts)) = Len(mb.sections)
          /\ \A a, b \in 1..Len(CoverAnchors(CoverContexts)) :
                CoverAnchors(CoverContexts)[a] = CoverAnchors(CoverContexts)[b] => a = b


\* the children of the entries of a TOC, in document order
RECURSIVE TocChildren(_)
TocChildren(toc) ==
    IF toc = <<>> THEN <<>> ELSE Head(toc).children \o TocChildren(Tail(toc))

\* C26: the table of contents of a loaded catalog has one level-1 entry for
\* every Section, in source order, whose children are one entry for every
\* Series of that Section, in source order, and nothing else; Sections and
\* Series without title, name and code are entered under the default titles.
C26_TocMirrorsCatalog ==
    TocDone =>
        LET toc == entries[1]
            l1 == HeadingsAt(mb.blocks, 1)
            l2 == HeadingsAt(mb.blocks, 2)
            sers == FlatSeries(mb.sections)
            kids == TocChildren(toc)
        IN  /\ Len(toc) = Len(mb.sections)
            /\ \A i \in 1..Len(toc) :
                  /\ toc[i].level = 1
                  /\ toc[i].title = SectionTitle(mb.sections[i])
                  /\ toc[i].anchor = TxtSecDash \o mb.blocks[l1[i]].block_id
                  /\ Len(toc[i].children) = Len(mb.sections[i].series)
            /\ Len(kids) = Len(sers)
            /\ \A k \in 1..Len(kids) :
                  /\ kids[k] = ChildEntry(ser_name(sers[k]), mb.blocks[l2[k]])

C26_Witness ==
    /\ TocDone
    /\ Len(entries[1]) = 2
    /\ \A i \in 1..2 : Len(entries[1][i].children) = 2
    /\ entries[1][1].title = TxtRazdel
    /\ entries[1][2].children[1].title = TxtSeriya
    /\ Get(data.sections[1], "title", None) = None


\* the contexts of the detail pages and of the products rendered so far,
\* one of each for every Series the driver has gone through
DetailContexts ==
    LET IsDetail(c) == c.template = "series_detail"
    IN  Filter(contexts, IsDetail)

ProductContexts ==
    LET IsProducts(c) == c.template = "products"
    IN  Filter(contexts, IsProducts)

\* C27: the detail pages and the series group of every Series are anchored
\* at that Series's own level-2 heading, the anchor of its entry in the
\* table of contents, also when several Series have one name.
C27_OwnAnchors ==
    /\ \A k \in 1..Len(DetailContexts) :
          LET own == TxtSecDash \o mb.blocks[HeadingsAt(mb.blocks, 2)[k]].block_id
          IN  /\ own = TocChildren(entries[1])[k].anchor
              /\ DetailContexts[k].items[1].anchor_p1 = own \o TxtP1
              /\ DetailContexts[k].items[1].anchor_p2 = own \o TxtP2
    /\ \A k \in 1..Len(ProductContexts) :
          \A g \in 1..Len(ProductContexts[k].series_groups) :
              ProductContexts[k].series_groups[g].anchor = TocChildren(entries[1])[k].anchor


\* the positions of the fragments of a kind in a fragment list
FragmentsOf(kind, fragments) == {k \in 1..Len(fragments) : fragments[k] = kind}

\* C30: the assembled document holds the back cover fragment exactly when
\* it holds the cover fragment. With the no-cover toggle it holds neither,
\* although the block list holds a cover and a backcover block; without the
\* toggle the cover fragment is its first and the back cover its last.
C30_CoversTogether ==
    html # NoneObj =>
        LET fs == html.fragments IN
        /\ FragmentsOf("backcover", fs) # {} <=> FragmentsOf("cover", fs) # {}
        /\ \E i, j \in 1..Len(mb.blocks) : mb.blocks[i].type = "cover" /\ mb.blocks[j].type = "backcover"
        /\ IF args.no_cover
           THEN FragmentsOf("cover", fs) = {} /\ FragmentsOf("backcover", fs) = {}
           ELSE FragmentsOf("cover", fs) = {1} /\ FragmentsOf("backcover", fs) = {Len(fs)}

C30_Witness ==
    /\ html # NoneObj
    /\ args.no_cover
    /\ Len(mb.sections) = 2
    /\ FragmentsOf("section_cover", html.fragments) # {}
    /\ FragmentsOf("cover", html.fragments) = {}


\* the ways of setting the show_in_toc attribute of the blocks of a list of
\* n blocks: every way for a short list, all on or all off for a long one
AttributeChoices(n) ==
    IF n <= MaxTocBlocks THEN [1..n -> BOOLEAN] ELSE {[i \in 1..n |-> v] : v \in BOOLEAN}

\* the bundle whose blocks have the show_in_toc attributes `attr` and are
\* the same otherwise (block_index holds the blocks themselves)
WithAttribute(model, attr) ==
    LET bs == [i \in 1..Len(model.blocks) |-> [model.blocks[i] EXCEPT !.show_in_toc = attr[i]]]
    IN  [model EXCEPT !.blocks = bs,
                      !.block_index = [id \in DOMAIN model.block_index |->
                          bs[CHOOSE i \in 1..Len(bs) : model.blocks[i] = model.block_index[id]]]]

\* C28: the tree generate_toc builds does not depend on the show_in_toc
\* attribute of the blocks: a block list that differs from the bundle's
\* only in those attributes, parameters included, yields the same tree.
C28_AttributeIgnored ==
    TocDone =>
        \A attr \in AttributeChoices(Len(mb.blocks)) : generate_toc(WithAttribute(mb, attr)) = entries[1]

C28_Witness ==
    /\ TocDone
    /\ Len(mb.blocks) = MaxTocBlocks
    /\ Len(entries[1]) = 1
    /\ \E i, j \in 1..Len(mb.blocks) :
          /\ mb.blocks[i].type # "section_heading" /\ "show_in_toc" \notin DOMAIN mb.blocks[i].params
          /\ mb.blocks[j].type = "section_heading" /\ "show_in_toc" \notin DOMAIN mb.blocks[j].params
          /\ ~mb.blocks[i].show_in_toc /\ ~mb.blocks[j].show_in_toc


\* the level-2 entry of the block at position i is a child of the node
\* opened by the block at position j
ChildOf(tree, m, i, j) ==
    \E e \in 1..Len(tree) :
        /\ tree[e].level = 1
        /\ tree[e].anchor = TxtSecDash \o m.blocks[j].block_id
        /\ \E c \in 1..Len(tree[e].children) : tree[e].children[c].anchor = TxtSecDash \o m.blocks[i].block_id

\* C29: a level-1 section_heading that is skipped (excluded, or without a
\* title) closes the open node: the entry of a level-2 heading that follows
\* it, with no level-1 entry opened in between, is a top-level entry and is
\* not a child of any node opened before the skipped heading.
C29_SkippedClosesNode ==
    TocDone =>
        \A s \in 1..Len(mb.blocks) : \A i \in (s + 1)..Len(mb.blocks) :
            (/\ Closes(mb, s)
             /\ HeadingOf(mb, i, 2) /\ MakesChild(mb, i)
             /\ \A k \in (s + 1)..(i - 1) : ~Opens(mb, k)) =>
                /\ \E e \in 1..Len(entries[1]) : entries[1][e] = ChildEntry(TocTitle(mb.blocks[i]), mb.blocks[i])
                /\ \A j \in 1..(s - 1) : Opens(mb, j) => ~ChildOf(entries[1], mb, i, j)

C29_Witness ==
    /\ TocDone
    /\ Len(mb.blocks) = 3
    /\ Opens(mb, 1) /\ HeadingOf(mb, 1, 1)
    /\ Closes(mb, 2)
    /\ HeadingOf(mb, 3, 2) /\ MakesChild(mb, 3)
    /\ Len(entries[1]) = 2
    /\ entries[1][1].children = <<>>


(***************************************************************************)
(* The rows of a spec table: the attribute payload load_catalog makes of   *)
(* a Model and _build_rows_from_groups applied to it.                      *)
(***************************************************************************)
\* the attribute groups the Models are made of: with and without a name,
\* with a blank or padded name, with no items, with padded item names
GroupKinds ==
    << [group |-> <<"G">>, items |-> << [name |-> <<"w">>, value |-> <<"1">>, unit |-> <<"k","g">>],
                                        [name |-> <<"h">>, value |-> <<"2">>] >>],
       [items |-> << [name |-> <<"d">>, value |-> <<"3">>] >>],
       [group |-> <<" ">>, items |-> << [name |-> <<"e">>], [name |-> <<"f">>, value |-> <<"5">>, unit |-> <<>>] >>],
       [group |-> <<"H">>, items |-> <<>>],
       [group |-> <<" ","K"," ">>, items |-> << [name |-> <<" ","n"," ">>, value |-> <<"4">>, unit |-> <<"m">>] >>],
       [group |-> <<"G">>, items |-> << [name |-> <<"w">>, value |-> <<"9">>] >>] >>

\* a Model with the attribute groups GroupKinds[pick[i]]
ModelWith(n, pick) ==
    [sku |-> <<"A","1">>, name |-> <<"M","1">>, attributes |-> [i \in 1..n |-> GroupKinds[pick[i]]]]

RowsInit ==
    /\ \E n \in 0..MaxGroups : \E pick \in [1..n -> 1..Len(GroupKinds)] : \E group_headers \in BOOLEAN :
          data = [model |-> ModelWith(n, pick), group_headers |-> group_headers]
    /\ args = NoneObj
    /\ pc = "spec_payload"
    /\ catalog = NoneObj
    /\ gen_models = TRUE
    /\ blocks = <<>>
    /\ order = 0
    /\ si = 0 /\ ri = 0 /\ ii = 0
    /\ sec_block_id = None /\ ser_block_id = None
    /\ mb = NoBundle
    /\ frags = <<>>
    /\ entries = <<>>
    /\ contexts = <<>>
    /\ html = NoneObj
    /\ page = NoPage

\* load_catalog, lines 208-242, for the one Model: its spec_table block
SpecPayload ==
    /\ pc = "spec_payload"
    /\ \E run \in SpecTableRuns(<< Model_from_dict(data.model) >>, Settings_from_dict(EmptyDict), blocks, order, None) :
          blocks' = run.blocks /\ order' = run.order
    /\ pc' = "spec_rows"
    /\ UNCHANGED <<data, catalog, gen_models, si, ri, ii, sec_block_id, ser_block_id,
                   mb, args, frags, entries, contexts, html, page>>

\* _build_rows_from_groups applied to the payload of the block
BuildRows ==
    /\ pc = "spec_rows"
    /\ contexts' = << [template |-> "spec_table",
                       rows |-> _build_rows_from_groups(OrList(blocks[1].params.attributes), data.group_headers)] >>
    /\ pc' = "spec_done"
    /\ UNCHANGED <<data, catalog, gen_models, blocks, order, si, ri, ii, sec_block_id, ser_block_id,
                   mb, args, frags, entries, html, page>>

RowsNext ==
    \/ SpecPayload
    \/ BuildRows

RowsSpec == RowsInit /\ [][RowsNext]_vars

\* the attribute groups and the items of a group as the source lists them
SourceGroups == data.model.attributes
SourceItems(g) == Get(SourceGroups[g], "items", <<>>)

\* the group has a header row: headers are on and its name is not blank
HasHeader(g) == data.group_headers /\ Strip(Get(SourceGroups[g], "group", <<>>)) # <<>>

\* the number of rows of the groups before group g
RECURSIVE RowsBefore(_)
RowsBefore(g) ==
    IF g = 1 THEN 0
    ELSE RowsBefore(g - 1) + Len(SourceItems(g - 1)) + (IF HasHeader(g - 1) THEN 1 ELSE 0)

\* C24: the payload of a spec_table block lists the attribute groups and
\* the items of each group in source order, and so do the rows built from
\* it: the rows of a group follow the rows of the groups before it, they
\* are its items in order, headed by one header row exactly when headers
\* are on and the group's name is not blank; there are no other rows.
C24_OrderPreserved ==
    /\ pc # "spec_payload" =>
          LET payload == blocks[1].params.attributes IN
          /\ Len(payload) = Len(SourceGroups)
          /\ \A g \in 1..Len(payload) :
                /\ payload[g].group = Get(SourceGroups[g], "group", <<>>)
                /\ Len(payload[g].items) = Len(SourceItems(g))
                /\ \A k \in 1..Len(payload[g].items) :
                      /\ payload[g].items[k].name = Get(SourceItems(g)[k], "name", <<>>)
                      /\ payload[g].items[k].value = Get(SourceItems(g)[k], "value", None)
                      /\ payload[g].items[k].unit = Get(SourceItems(g)[k], "unit", None)
    /\ pc = "spec_done" =>
          LET rows == contexts[1].rows IN
          /\ Len(rows) = RowsBefore(Len(SourceGroups) + 1)
          /\ \A g \in 1..Len(SourceGroups) :
                LET first == RowsBefore(g) + (IF HasHeader(g) THEN 1 ELSE 0) IN
                /\ HasHeader(g) => rows[RowsBefore(g) + 1] = [_is_group |-> TRUE, group |-> Strip(SourceGroups[g].group)]
                /\ \A k \in 1..Len(SourceItems(g)) :
                      rows[first + k] = [_is_group |-> FALSE,
                                         attr_name |-> Strip(Get(SourceItems(g)[k], "name", <<>>)),
                                         value     |-> Get(SourceItems(g)[k], "value", None),
                                         unit      |-> Or(Get(SourceItems(g)[k], "unit", None), <<>>)]

C24_Witness ==
    /\ pc = "spec_done"
    /\ data.group_headers
    /\ Len(SourceGroups) = MaxGroups
    /\ HasHeader(1) /\ ~HasHeader(2) /\ HasHeader(3)
    /\ Len(SourceItems(1)) = 2 /\ Len(SourceItems(3)) = 1
    /\ Len(contexts[1].rows) = 6


(***************************************************************************)
(* core/export.py: html_to_pdf_chromium, the page it drives and the        *)
(* clock its two waits run against (in seconds).                           *)
(***************************************************************************)
WaitTimeout == 20     \* timeout=20000 of page.wait_for_function
SafetyTimeout == 10   \* setTimeout(done, 10000) of the fallback

ExportInit ==
    /\ data = NoneObj
    /\ args = [no_cover |-> FALSE]
    /\ pc = "export_goto"
    /\ catalog = NoneObj
    /\ gen_models = FALSE
    /\ blocks = <<>>
    /\ order = 0
    /\ si = 0 /\ ri = 0 /\ ii = 0
    /\ sec_block_id = None /\ ser_block_id = None
    /\ mb = NoBundle
    /\ frags = <<>>
    /\ entries = <<>>
    /\ contexts = <<>>
    /\ html = assemble_document(<<>>, Settings_from_dict(EmptyDict))
    /\ page = NoPage

\* what of the run stays as it is while the export works on the page
ExportFrame ==
    UNCHANGED <<data, catalog, gen_models, blocks, order, si, ri, ii, sec_block_id, ser_block_id,
                mb, args, frags, entries, contexts, html>>

\* lines 35-47: the browser, the page, the document loaded; the first wait
\* begins. The scripts of the document may have set window.PAGED_DONE and
\* dispatched pagedjs:rendered while it loaded.
ExportGoto ==
    /\ pc = "export_goto"
    /\ \E done, rendered \in BOOLEAN :
          page' = [open |-> TRUE, clock |-> 0, deadline |-> WaitTimeout,
                   PAGED_DONE |-> done, rendered |-> rendered, listener |-> FALSE,
                   timed_out |-> FALSE, ended |-> "none", printed |-> FALSE]
    /\ pc' = "export_wait"
    /\ ExportFrame

\* the page: Paged.js has finished and window.PAGED_DONE is set
PagedDone ==
    /\ pc \in {"export_wait", "export_fallback", "export_pdf"}
    /\ ~page.PAGED_DONE
    /\ page' = [page EXCEPT !.PAGED_DONE = TRUE]
    /\ UNCHANGED pc
    /\ ExportFrame

\* the page: pagedjs:rendered is dispatched; the { once: true } listener of
\* the fallback, when it is there, resolves the promise (line 57)
PagedRendered ==
    /\ pc \in {"export_wait", "export_fallback", "export_pdf"}
    /\ ~page.rendered
    /\ IF pc = "export_fallback" /\ page.listener
       THEN /\ page' = [page EXCEPT !.rendered = TRUE, !.listener = FALSE, !.ended = "event"]
            /\ pc' = "export_pdf"
       ELSE /\ page' = [page EXCEPT !.rendered = TRUE]
            /\ UNCHANGED pc
    /\ ExportFrame

\* a second passes while a wait is on and its timer is not due
Tick ==
    /\ pc \in {"export_wait", "export_fallback"}
    /\ page.clock < page.deadline
    /\ page' = [page EXCEPT !.clock = @ + 1]
    /\ UNCHANGED pc
    /\ ExportFrame

\* line 47: wait_for_function sees window.PAGED_DONE === true
FirstWaitDone ==
    /\ pc = "export_wait"
    /\ page.PAGED_DONE
    /\ page' = [page EXCEPT !.ended = "signal"]
    /\ pc' = "export_pdf"
    /\ ExportFrame

\* an export without the except clause: the timeout ends it
FirstWaitExpires_fatal ==
    /\ pc = "export_wait"
    /\ page.clock = page.deadline
    /\ page' = [page EXCEPT !.open = FALSE, !.timed_out = TRUE]
    /\ pc' = "export_failed"
    /\ ExportFrame

\* lines 47-60: wait_for_function times out; the exception is caught and
\* the fallback is evaluated in the page: it resolves at once when
\* window.PAGED_DONE is set by now, else it listens for pagedjs:rendered
\* and starts the safety timer
FirstWaitExpires ==
    /\ pc = "export_wait"
    /\ page.clock = page.deadline
    /\ IF page.PAGED_DONE
       THEN /\ page' = [page EXCEPT !.timed_out = TRUE, !.ended = "already"]
            /\ pc' = "export_pdf"
       ELSE /\ page' = [page EXCEPT !.timed_out = TRUE, !.listener = TRUE,
                                    !.deadline = page.clock + SafetyTimeout]
            /\ pc' = "export_fallback"
    /\ ExportFrame

\* line 58: the safety timer of the fallback resolves the promise
SafetyTimer ==
    /\ pc = "export_fallback"
    /\ page.clock = page.deadline
    /\ page' = [page EXCEPT !.ended = "safety"]
    /\ pc' = "export_pdf"
    /\ ExportFrame

\* lines 63-69: page.pdf
ExportPdf ==
    /\ pc = "export_pdf"
    /\ page' = [page EXCEPT !.printed = TRUE]
    /\ pc' = "export_close"
    /\ ExportFrame

\* line 71: browser.close
ExportClose ==
    /\ pc = "export_close"
    /\ page' = [page EXCEPT !.open = FALSE]
    /\ pc' = "export_done"
    /\ ExportFrame

ExportNext ==
    \/ ExportGoto
    \/ PagedDone
    \/ PagedRendered
    \/ Tick
    \/ FirstWaitDone
    \/ FirstWaitExpires
    \/ SafetyTimer
    \/ ExportPdf
    \/ ExportClose

\* one call of html_to_pdf_chromium: time passes while it waits, a timer
\* that is due fires, and a call that can return does; the page sets its
\* signals when it likes, or never
ExportSpec ==
    /\ ExportInit
    /\ [][ExportNext]_vars
    /\ WF_vars(ExportGoto) /\ WF_vars(Tick)
    /\ WF_vars(FirstWaitExpires) /\ WF_vars(SafetyTimer)
    /\ WF_vars(ExportPdf) /\ WF_vars(ExportClose)

\* the first wait has timed out / the page has been printed
TimedOut == page # NoPage /\ page.timed_out
Printed == page # NoPage /\ page.printed

\* C22: when the first wait of the export times out, the export does not
\* fail: it goes on to the second wait, which ends on the rendered event or
\* on the safety timer (or at once, when the signal has arrived by then),
\* and the page is then printed in every case; the page is never printed
\* before one of the two waits has ended.
C22_ExportDegrades ==
    /\ [](TimedOut => /\ pc \in {"export_fallback", "export_pdf", "export_close", "export_done"}
                      /\ pc = "export_fallback" <=> page.ended = "none"
                      /\ page.ended \in {"none", "event", "safety", "already"}
                      /\ page.ended = "already" => page.PAGED_DONE
                      /\ page.ended = "event" => page.rendered)
    /\ [](Printed => page.ended # "none")
    /\ [][(pc = "export_wait" /\ pc' # "export_wait") =>
             \/ page.PAGED_DONE /\ pc' = "export_pdf"
             \/ page.clock = WaitTimeout /\ pc' = "export_fallback" /\ page'.listener
                   /\ page'.deadline = WaitTimeout + SafetyTimeout]_vars
    /\ (TimedOut ~> Printed)

C22_Witness ==
    /\ TimedOut
    /\ Printed
    /\ page.ended = "safety"
    /\ ~page.PAGED_DONE
    /\ page.clock = WaitTimeout + SafetyTimeout

====
